---- MODULE Spec2Model ----
(***************************************************************************)
(* A model of the quiz subsystem of the book platform: the markdown quiz   *)
(* parser and batch import (scripts/parse-quizzes.ts), and the quiz        *)
(* submission flow (components/QuizInterface and the grading route).       *)
(*                                                                         *)
(* A markdown line is modelled by the way the parser's regular expressions *)
(* classify it: a record [k, n, key, t] where k is the shape of the line,  *)
(* n a number in it, key an option letter and t its free text.             *)
(***************************************************************************)
EXTENDS Integers, Sequences, FiniteSets, Bags, TLC

VARIABLES
    doc,        \* parser: the quiz file handed to parseQuizFile
    ppc,        \* parser: "ready" before the call, "done" after it, "again"
                \* after a second call on the same file
    outcome,    \* parser: what parseQuizFile returned and logged
    previous,   \* parser: what the call before the last one returned
    tree,       \* import: the files under docs/, in directory order
    dirOk,      \* import: docs/ can be read
    envUrl,     \* import: NEON_DATABASE_URL is set
    mpc,        \* import: where main() is
    mfiles,     \* import: quizFiles
    mi,         \* import: the index of the running for loop
    mquizzes,   \* import: quizzes
    table,      \* the rows of the quizzes table
    idSeq,      \* the last value of the quizzes id sequence
    now,        \* the database clock (CURRENT_TIMESTAMP)
    exitCode,   \* import: the exit status of the process, -1 while it runs
    runs,       \* import: how many times the script has been started
    failure,    \* history: the failure that ended this run, "none" if none
    msrc,       \* history: for each of quizzes, the index of its file
    inserted,   \* history: the files whose quiz was handed to insertQuiz
    firstRow,   \* history: chapter_id -> the row its first insert created
    lastQuiz,   \* history: chapter_id -> the quiz of its latest insert
    snapshot,   \* history: <<the table when the previous run ended>> if that
                \* run ended without a failure, else <<>>
    squiz,      \* scoring: <<the quiz read by its identifier>>, <<>> if none
    ssub,       \* scoring: the answers submitted, question id -> key
    strict,     \* scoring: answers to unknown questions are rejected
    spc,        \* scoring: "ready" before the grading, "done" after it
    sres,       \* scoring: what the grading gave
    store,      \* submit: <<the stored quiz>>, <<>> when it is not found
    tabUser,    \* submit: the learner signed in, for each open QuizInterface
    answers,    \* submit: QuizInterface state answers
    idx,        \* submit: QuizInterface state currentQuestionIndex
    isSubmitting, \* submit: QuizInterface state isSubmitting
    results,    \* submit: QuizInterface state results, <<>> for null
    req,        \* submit: the request of each QuizInterface, <<>> if none
    attempts,   \* the rows of the quiz attempts table, a bag
    attemptSeq, \* learner -> the number of attempts graded so far
    lock,       \* learner -> the QuizInterface whose request holds the
                \* attempt numbering of the learner, 0 if none
    maxAssigned, \* history: learner -> the largest attempt_number assigned
    afterDelete, \* history: an attempt was stored for a learner after one
                \* of the learner's attempts had been deleted
    overlapped, \* history: an attempt was stored while another request of
                \* the same learner was waiting
    cpath,      \* chapter id: the path handed to extractChapterId
    wall,       \* quiz page: Date.now() of the browser, in ticks
    quizStartTime, \* quiz page: for each tab, the quizStartTime of its
                \* QuizInterface
    cpc,        \* chapter id: "ready" before the call, "done" after it
    cid,        \* chapter id: what extractChapterId returned
    mounted,    \* tracking: the component that uses the hook is mounted
    props,      \* tracking: the arguments [chapterId, enabled] of the hook
    effect,     \* tracking: <<the timer of the effect whose cleanup is
                \* pending>>, <<>> when the last effect returned no cleanup
    intervalIdRef, \* tracking: intervalIdRef.current, 0 for null
    startTimeRef,  \* tracking: startTimeRef.current, in ticks
    timers,     \* tracking: the intervals set so far, in order: each
                \* [chapterId, due, live]
    clock,      \* tracking: Date.now(), in ticks
    track,      \* history: for each interval, the trackTime calls of its
                \* effect: [started, interval, final, late, posts]
    inflight,   \* tracking: the POSTs to /api/progress/track that no
                \* response has settled: each [id, time_spent_seconds]
    sent,       \* history: the sum of time_spent_seconds of the POSTs made,
                \* less those whose fetch was rejected
    settled,    \* history: <<[id, outcome] of the POST settled last>>
    greq,       \* progress: the request [session, user_id, chapter_id], each
                \* <<>> when absent
    grants,     \* progress: the pairs <<caller, target>> that
                \* isAuthorizedToAccess approves
    gpc,        \* progress: where the GET handler is
    gresp,      \* progress: the response, [status |-> 0] before it is sent
    gclient,    \* progress: the pool client of the handler: "none", "held"
                \* or "released"
    gqueries,   \* history: the chapter_progress queries the handler ran
    gfail,      \* history: the call of the handler that threw, "none" if none
    fpc,        \* fix script: where fixQuizChapterIds is
    fi,         \* fix script: the index of the loop over the updates
    ftable,     \* fix script: the chapter_id values in the quizzes table
    fclient,    \* fix script: the pool client: "none", "held" or "released"
    fexit,      \* fix script: the exit status of the process, -1 while it
                \* runs
    ffail,      \* history: the call of the script that threw, "none" if none
    activeId,   \* book page: the chapter selected
    signedIn,   \* book page: session?.user is there
    currentContent, \* book page: what currentContent holds: [kind, of]
    quizData,   \* book page: <<the chapter of the quiz loaded>>, <<>> for
                \* null
    loading,    \* book page: the loading flag
    loads,      \* book page: the loadContent calls whose fetch has not
                \* settled, in the order they began: each [id, quiz]
    ddata,      \* dashboard: <<the data held>>, <<>> for null
    dloading,   \* dashboard: the loading flag
    derror,     \* dashboard: <<the error message held>>, <<>> for null
    dpending,   \* dashboard: a fetch of fetchDashboardData has not settled
    dpath,      \* dashboard: the route the router is on
    dhistory,   \* history: how the fetches settled, in order
    qrows,      \* upkeep: the rows of the quizzes table, each [chapter_id,
                \* doc], doc the path of the document the row was made from
    mfix,       \* upkeep: how the last run of the fix script ended: "none",
                \* "ok" or "failed"
    rpc,        \* assign-roles: where assignRoles is
    rtodo,      \* assign-roles: the rows of usersResult not yet handled
    rcur,       \* assign-roles: <<the user of the running loop pass>>
    roles,      \* the rows of user_roles: [user_id, role, script], script
                \* when assign-roles made the row
    profiles,   \* the rows of student_profiles: [user_id, student_id]
    rexit,      \* assign-roles: the exit status, -1 while it runs
    rruns       \* assign-roles: how many times the script has been started

parseVars == <<doc, ppc, outcome, previous>>
importVars ==
    <<tree, dirOk, envUrl, mpc, mfiles, mi, mquizzes, exitCode, runs,
      failure, msrc, inserted, snapshot>>
dbVars == <<table, idSeq, now, firstRow, lastQuiz>>
scoreVars == <<squiz, ssub, strict, spc, sres>>
tabVars == <<answers, idx, isSubmitting, results>>
serverVars ==
    <<store, attempts, attemptSeq, lock, maxAssigned, afterDelete, overlapped>>
mountVars == <<wall, quizStartTime>>
submitVars == <<tabUser, tabVars, req, serverVars, mountVars>>

chapterVars == <<cpath, cpc, cid>>
trackVars ==
    <<mounted, props, effect, intervalIdRef, startTimeRef, timers, clock,
      track, inflight, sent, settled>>
progressVars == <<greq, grants, gpc, gresp, gclient, gqueries, gfail>>
fixVars == <<fpc, fi, ftable, fclient, fexit, ffail>>
pageVars == <<activeId, signedIn, currentContent, quizData, loading, loads>>
dashVars == <<ddata, dloading, derror, dpending, dpath, dhistory>>
maintVars == <<qrows, mfix>>
roleVars == <<rpc, rtodo, rcur, roles, profiles, rexit, rruns>>
moreVars == <<pageVars, dashVars, maintVars, roleVars>>
extraVars == <<chapterVars, trackVars, progressVars, fixVars, moreVars>>

vars == <<parseVars, importVars, dbVars, scoreVars, submitVars, extraVars>>

\* what the steps of the import leave alone
offImport == <<parseVars, scoreVars, submitVars, extraVars>>

(***************************************************************************)
(* Bounds of the model.                                                    *)
(***************************************************************************)
MaxLines == 4
MaxRuns == 2
MaxQuestions == 3
MaxAttempts == 2
MaxDirs == 2
MaxClock == 6
TicksPerInterval == 3
MaxEffects == 2
MaxRenamed == 3
MaxInFlight == 2
MaxWall == 2
MaxLoads == 2
MaxFetches == 3

(***************************************************************************)
(* Markdown lines.                                                         *)
(***************************************************************************)
Line(k, n, key, t) == [k |-> k, n |-> n, key |-> key, t |-> t]

\* "### Question 1: Topic"
HeadTopic == Line("qhead", 1, "", "Topic")
\* "### Question 7:" (no title after the colon)
HeadBare == Line("qhead", 7, "", "")
\* "# Markdown Quiz"
TitleLine == Line("h1", 0, "", "Markdown Quiz")
\* "Check what you learned."
Intro == Line("plain", 0, "", "Check what you learned.")
\* an empty line
Blank == Line("blank", 0, "", "")
\* "A) x"
OptA == Line("opt", 0, "A", "x")
\* "**B)** y"
BoldOptB == Line("boldopt", 0, "B", "y")
\* "E) z": a letter outside A-D
OptE == Line("opt", 0, "E", "z")
\* "**Answer: B)**"
AnsB == Line("ans", 0, "B", "")
\* "**Answer: C)**"
AnsC == Line("ans", 0, "C", "")
\* "**Explanation:** why"
Expl == Line("expl", 0, "", "why")
\* "1. **A** - old"
Legacy1 == Line("legacy", 1, "A", "old")
\* "2. **D** - older"
Legacy2 == Line("legacy", 2, "D", "older")

\* the heading of the questions section ('## Questions' after its emoji)
QSection == Line("qsec", 0, "", "")
\* "**Good luck**"
BoldLine == Line("bold", 0, "", "Good luck")
\* "- five questions"
ListItem == Line("list", 0, "", "five questions")
\* a paragraph of 120 characters
LongIntro ==
    Line("plain", 0, "",
         "0123456789012345678901234567890123456789" \o
         "0123456789012345678901234567890123456789" \o
         "0123456789012345678901234567890123456789")

ScanLines ==
    {HeadTopic, HeadBare, Blank, OptA, BoldOptB, OptE, AnsB, AnsC, Expl,
     Legacy1, Legacy2}

OptionKeys == {"A", "B", "C", "D"}

\* line.replace(/\*\*/g, '').trim(): the text of a line without its bold marks
StripBold(line) ==
    CASE line.k = "blank" -> ""
      [] line.k = "qhead" ->
            IF line.t = "" THEN "### Question " \o ToString(line.n) \o ":"
            ELSE "### Question " \o ToString(line.n) \o ": " \o line.t
      [] line.k \in {"opt", "boldopt"} -> line.key \o ") " \o line.t
      [] line.k = "ans" -> "Answer: " \o line.key \o ")"
      [] line.k = "expl" -> "Explanation: " \o line.t
      [] line.k = "legacy" ->
            ToString(line.n) \o ". " \o line.key \o " - " \o line.t
      [] line.k = "h1" -> "# " \o line.t
      [] line.k = "h2" -> "## " \o line.t
      [] line.k = "qsec" -> "## Questions"
      [] line.k = "list" -> "- " \o line.t
      [] OTHER -> line.t

\* line.match(/^### Question (\d+):/)
IsQuestionHeading(line) == line.k = "qhead"

\* an option line with any letter as its key
OptionMatchAnyKey(line) == line.k \in {"opt", "boldopt"} /\ line.t # ""

\* /^\*\*([A-D])\)\*\*\s+(.+)/ or /^([A-D])\)\s+(.+)/
OptionMatch(line) ==
    /\ line.k \in {"opt", "boldopt"}
    /\ line.key \in OptionKeys
    /\ line.t # ""

\* /\*\*Answer:\s+([A-D])\)/
AnswerInDetailsMatch(line) == line.k = "ans" /\ line.key \in OptionKeys

\* /\*\*Explanation:\*\*\s+(.+)/
ExplanationMatch(line) == line.k = "expl" /\ line.t # ""

\* /^(\d+)\.\s+\*\*([A-D])\*\*\s+-\s+(.+)/
LegacyMatch(line) ==
    line.k = "legacy" /\ line.key \in OptionKeys /\ line.t # ""

(***************************************************************************)
(* parseQuizFile: the scan over the lines.                                 *)
(***************************************************************************)
\* the question text: the next line without its bold marks, or else the
\* heading's title
QuestionText(lines, i) ==
    LET next == IF i + 1 <= Len(lines) THEN StripBold(lines[i + 1]) ELSE ""
    IN  IF next # "" THEN next ELSE lines[i].t

NewQuestion(num, text) ==
    [id |-> "q" \o ToString(num), question |-> text, options |-> <<>>,
     correct_answer |-> "", explanation |-> ""]

\* a JavaScript array is truthy, empty or not
ArrayTruthy(a) == TRUE

\* currentQuestion && currentQuestion.question && currentQuestion.options;
\* cur is <<>> for null and <<q>> for a question being accumulated
Finalizable(cur) ==
    /\ cur # <<>>
    /\ cur[1].question # ""
    /\ ArrayTruthy(cur[1].options)

PushCurrent(questions, cur) ==
    IF Finalizable(cur) THEN Append(questions, cur[1]) ELSE questions

\* answers.set(num, {answer, explanation})
MapSet(m, num, v) ==
    [x \in DOMAIN m \cup {num} |-> IF x = num THEN v ELSE m[x]]

\* the questions list is kept from one call of parseQuizFile to the next
ScanCarried ==
    [questions |-> IF outcome.quiz # <<>> THEN outcome.quiz[1].questions
                   ELSE <<>>,
     cur |-> <<>>, questionNumber |-> 0, answers |-> <<>>]

\* the locals of a call: questions = [], answers = new Map(),
\* currentQuestion = null, questionNumber = 0
ScanInit ==
    [questions |-> <<>>, cur |-> <<>>, questionNumber |-> 0, answers |-> <<>>]

\* one pass of the body of the for loop over the lines
ScanLine(st, lines, i) ==
    LET line == lines[i]
        s1 == IF IsQuestionHeading(line)
              THEN [st EXCEPT
                      !.questions = PushCurrent(@, st.cur),
                      !.questionNumber = @ + 1,
                      !.cur = <<NewQuestion(st.questionNumber + 1,
                                            QuestionText(lines, i))>>]
              ELSE st
        s2 == IF s1.cur # <<>> /\ OptionMatch(line)
              THEN [s1 EXCEPT !.cur[1].options =
                        Append(@, [key |-> line.key, text |-> line.t])]
              ELSE s1
        s3 == IF AnswerInDetailsMatch(line) /\ s2.cur # <<>>
              THEN [s2 EXCEPT !.cur[1].correct_answer = line.key]
              ELSE s2
        s4 == IF ExplanationMatch(line) /\ s3.cur # <<>>
              THEN [s3 EXCEPT !.cur[1].explanation = line.t]
              ELSE s3
        s5 == IF LegacyMatch(line)
              THEN [s4 EXCEPT !.answers =
                        MapSet(@, line.n,
                               [answer |-> line.key, explanation |-> line.t])]
              ELSE s4
    IN  s5

RECURSIVE Scan(_, _, _)
Scan(st, lines, i) ==
    IF i > Len(lines) THEN st ELSE Scan(ScanLine(st, lines, i), lines, i + 1)

\* the number in the id "qN" of a question
IdNumber(q) == CHOOSE n \in 1..(MaxLines + 1) : q.id = "q" \o ToString(n)

\* the legacy entry is looked up by the number in the id of the question
MatchAnswersById(questions, legacy) ==
    [i \in 1..Len(questions) |->
        IF IdNumber(questions[i]) \in DOMAIN legacy
        THEN [questions[i] EXCEPT
                !.correct_answer = legacy[IdNumber(questions[i])].answer,
                !.explanation = legacy[IdNumber(questions[i])].explanation]
        ELSE questions[i]]

\* questions.forEach((q, index) => { const answerData = answers.get(index + 1) ... })
MatchAnswers(questions, legacy) ==
    [i \in 1..Len(questions) |->
        IF i \in DOMAIN legacy
        THEN [questions[i] EXCEPT !.correct_answer = legacy[i].answer,
                                  !.explanation = legacy[i].explanation]
        ELSE questions[i]]

\* !q.correct_answer || q.options.length === 0
IsInvalidQuestion(q) == q.correct_answer = "" \/ Len(q.options) = 0

\* questions.filter(q => ...): the positions the filter keeps
InvalidQuestions(questions) ==
    {i \in 1..Len(questions) : IsInvalidQuestion(questions[i])}

(***************************************************************************)
(* parseQuizFile: chapter id, title and description.                       *)
(***************************************************************************)
\* p.startsWith(prefix)
StartsWith(p, prefix) ==
    Len(p) >= Len(prefix) /\ SubSeq(p, 1, Len(prefix)) = prefix

\* the place of the first occurrence of pat in s at or after i, 0 if none
RECURSIVE IndexOf(_, _, _)
IndexOf(s, pat, i) ==
    IF i + Len(pat) - 1 > Len(s) THEN 0
    ELSE IF SubSeq(s, i, i + Len(pat) - 1) = pat THEN i
    ELSE IndexOf(s, pat, i + 1)

\* s.replace(pat, ''): the first occurrence only
RemoveFirst(s, pat) ==
    LET at == IndexOf(s, pat, 1)
    IN  IF at = 0 THEN s
        ELSE SubSeq(s, 1, at - 1) \o SubSeq(s, at + Len(pat), Len(s))

\* parts.find(p => p.startsWith('chapter-')): <<>> when there is none
RECURSIVE FindChapterPart(_, _)
FindChapterPart(parts, i) ==
    IF i > Len(parts) THEN <<>>
    ELSE IF StartsWith(parts[i], "chapter-") THEN <<parts[i]>>
    ELSE FindChapterPart(parts, i + 1)

\* a file path is the sequence of its segments
extractChapterId(filePath) ==
    LET chapterPart == FindChapterPart(filePath, 1)
        fileName == RemoveFirst(filePath[Len(filePath)], ".md")
    IN  IF chapterPart # <<>> /\ chapterPart[1] # ""
        THEN chapterPart[1] \o "-quiz"
        ELSE fileName

\* the line as written in the file, trimmed
Raw(line) ==
    CASE line.k = "h1" -> "# " \o line.t
      [] line.k = "h2" -> "## " \o line.t
      [] line.k = "qsec" -> "## Questions"
      [] line.k = "bold" -> "**" \o line.t \o "**"
      [] line.k = "list" -> "- " \o line.t
      [] line.k = "boldopt" -> "**" \o line.key \o ")** " \o line.t
      [] line.k = "ans" -> "**Answer: " \o line.key \o ")**"
      [] line.k = "expl" -> "**Explanation:** " \o line.t
      [] line.k = "legacy" ->
            ToString(line.n) \o ". **" \o line.key \o "** - " \o line.t
      [] OTHER -> StripBold(line)

\* the first line that starts with '# ', without the '# '
RECURSIVE ExtractTitle(_, _)
ExtractTitle(lines, i) ==
    IF i > Len(lines) THEN ""
    ELSE IF lines[i].k = "h1" THEN lines[i].t
    ELSE ExtractTitle(lines, i + 1)

\* line.trim() && !line.startsWith('**') && !line.startsWith('-') &&
\* !line.startsWith('#')
IsDescriptionLine(line) ==
    /\ Raw(line) # ""
    /\ ~StartsWith(Raw(line), "**")
    /\ ~StartsWith(Raw(line), "-")
    /\ ~StartsWith(Raw(line), "#")

\* the loop over the lines that collects the description
RECURSIVE DescriptionScan(_, _, _, _)
DescriptionScan(lines, i, inDescription, acc) ==
    IF i > Len(lines) THEN acc
    ELSE IF lines[i].k = "h1" /\ ~inDescription
         THEN DescriptionScan(lines, i + 1, TRUE, acc)
    ELSE IF inDescription /\ lines[i].k = "qsec" THEN acc
    ELSE IF inDescription /\ IsDescriptionLine(lines[i])
         THEN DescriptionScan(lines, i + 1, inDescription,
                              acc \o Raw(lines[i]) \o " ")
    ELSE DescriptionScan(lines, i + 1, inDescription, acc)

DescriptionMax == 200
DefaultPassing == 70

\* description.trim().substring(0, 200); the text collected ends with one space
ExtractDescription(lines) ==
    LET all == DescriptionScan(lines, 1, FALSE, "")
        trimmed == IF all = "" THEN "" ELSE SubSeq(all, 1, Len(all) - 1)
    IN  IF Len(trimmed) <= DescriptionMax THEN trimmed
        ELSE SubSeq(trimmed, 1, DescriptionMax)

(***************************************************************************)
(* parseQuizFile: what it returns (quiz is <<>> for null) and what it logs.*)
(***************************************************************************)
NoQuiz(err) ==
    [quiz |-> <<>>, noQuestions |-> ~err, invalid |-> {}, error |-> err]

\* the questions list when the scan has ended and the last question was added
ScannedQuestions(lines) ==
    LET st == Scan(ScanInit, lines, 1)
    IN  PushCurrent(st.questions, st.cur)

\* the answers map when the scan has ended
LegacyAnswers(lines) == Scan(ScanInit, lines, 1).answers

\* an empty list would be returned as a quiz
NeverEmpty(questions) == FALSE

\* questions.length === 0
NoQuestionsFound(questions) == Len(questions) = 0

parseQuizFile(file) ==
    IF ~file.readable THEN NoQuiz(TRUE)
    ELSE
      LET lines == file.lines
          questions ==
              MatchAnswers(ScannedQuestions(lines), LegacyAnswers(lines))
          title == ExtractTitle(lines, 1)
          description == ExtractDescription(lines)
      IN  IF NoQuestionsFound(questions) THEN NoQuiz(FALSE)
          ELSE [quiz |-> <<[chapter_id |-> extractChapterId(file.path),
                            title |-> IF title # "" THEN title ELSE "Quiz",
                            description |-> IF description # "" THEN description
                                            ELSE "Test your knowledge!",
                            passing_percentage |-> DefaultPassing,
                            questions |-> questions]>>,
                noQuestions |-> FALSE,
                invalid |-> InvalidQuestions(questions),
                error |-> FALSE]

(***************************************************************************)
(* The parser on its own: every document of at most MaxLines lines.        *)
(***************************************************************************)
RECURSIVE SeqsUpTo(_, _)
SeqsUpTo(S, n) ==
    IF n = 0 THEN {<<>>}
    ELSE LET shorter == SeqsUpTo(S, n - 1)
         IN  shorter \cup {Append(s, x) : s \in {t \in shorter : Len(t) = n - 1}, x \in S}

QuizPath == <<"docs", "chapter-02-markdown", "06-quiz-markdown.md">>

ParseDocs ==
    {[path |-> QuizPath, readable |-> TRUE, lines |-> l] :
        l \in SeqsUpTo(ScanLines, MaxLines)}
    \cup {[path |-> QuizPath, readable |-> FALSE, lines |-> <<>>]}

NotParsed == [quiz |-> <<>>, noQuestions |-> FALSE, invalid |-> {}, error |-> FALSE]

ParseIdle ==
    /\ doc = [path |-> QuizPath, readable |-> FALSE, lines |-> <<>>]
    /\ ppc = "idle"
    /\ outcome = NotParsed
    /\ previous = NotParsed

ImportIdle ==
    /\ tree = <<>>
    /\ dirOk = TRUE
    /\ envUrl = TRUE
    /\ mpc = "idle"
    /\ mfiles = <<>>
    /\ mi = 1
    /\ mquizzes = <<>>
    /\ exitCode = -1
    /\ runs = 0
    /\ failure = "none"
    /\ msrc = <<>>
    /\ inserted = {}
    /\ snapshot = <<>>

DbEmpty ==
    /\ table = {}
    /\ idSeq = 0
    /\ now = 1
    /\ firstRow = <<>>
    /\ lastQuiz = <<>>

NotGraded == [status |-> "none"]

ScoreIdle ==
    /\ squiz = <<>>
    /\ ssub = <<>>
    /\ strict = FALSE
    /\ spc = "idle"
    /\ sres = NotGraded

SubmitIdle ==
    /\ store = <<>>
    /\ tabUser = <<>>
    /\ answers = <<>>
    /\ idx = <<>>
    /\ isSubmitting = <<>>
    /\ results = <<>>
    /\ req = <<>>
    /\ attempts = <<>>
    /\ attemptSeq = <<>>
    /\ lock = <<>>
    /\ maxAssigned = <<>>
    /\ afterDelete = FALSE
    /\ overlapped = FALSE
    /\ wall = 0
    /\ quizStartTime = <<>>

ChapterIdle ==
    /\ cpath = <<>>
    /\ cpc = "idle"
    /\ cid = ""

TrackIdle ==
    /\ mounted = FALSE
    /\ props = [chapterId |-> "", enabled |-> FALSE]
    /\ effect = <<>>
    /\ intervalIdRef = 0
    /\ startTimeRef = 0
    /\ timers = <<>>
    /\ clock = 0
    /\ track = <<>>
    /\ inflight = <<>>
    /\ sent = 0
    /\ settled = <<>>

ProgressIdle ==
    /\ greq = [session |-> <<>>, user_id |-> <<>>, chapter_id |-> <<>>]
    /\ grants = {}
    /\ gpc = "idle"
    /\ gresp = [status |-> 0]
    /\ gclient = "none"
    /\ gqueries = 0
    /\ gfail = "none"

FixIdle ==
    /\ fpc = "idle"
    /\ fi = 1
    /\ ftable = {}
    /\ fclient = "none"
    /\ fexit = -1
    /\ ffail = "none"

PageIdle ==
    /\ activeId = ""
    /\ signedIn = FALSE
    /\ currentContent = <<>>
    /\ quizData = <<>>
    /\ loading = FALSE
    /\ loads = <<>>

DashIdle ==
    /\ ddata = <<>>
    /\ dloading = FALSE
    /\ derror = <<>>
    /\ dpending = FALSE
    /\ dpath = ""
    /\ dhistory = <<>>

MaintIdle ==
    /\ qrows = {}
    /\ mfix = "none"

RoleIdle ==
    /\ rpc = "idle"
    /\ rtodo = {}
    /\ rcur = <<>>
    /\ roles = {}
    /\ profiles = {}
    /\ rexit = -1
    /\ rruns = 0

MoreIdle ==
    /\ PageIdle
    /\ DashIdle
    /\ MaintIdle
    /\ RoleIdle

ExtraIdle ==
    /\ ChapterIdle
    /\ TrackIdle
    /\ ProgressIdle
    /\ FixIdle
    /\ MoreIdle

ParseInit ==
    /\ doc \in ParseDocs
    /\ ppc = "ready"
    /\ outcome = NotParsed
    /\ previous = NotParsed
    /\ ImportIdle
    /\ DbEmpty
    /\ ScoreIdle
    /\ SubmitIdle
    /\ ExtraIdle

\* the call parseQuizFile(doc)
Parse ==
    /\ ppc = "ready"
    /\ ppc' = "done"
    /\ outcome' = parseQuizFile(doc)
    /\ UNCHANGED <<doc, previous, importVars, dbVars, scoreVars, submitVars,
                   extraVars>>

\* parseQuizFile is called again on the same path and text
ParseAgain ==
    /\ ppc = "done"
    /\ ppc' = "again"
    /\ previous' = outcome
    /\ outcome' = parseQuizFile(doc)
    /\ UNCHANGED <<doc, importVars, dbVars, scoreVars, submitVars, extraVars>>

ParseNext ==
    \/ Parse
    \/ ParseAgain

SpecParse == ParseInit /\ [][ParseNext]_vars

(***************************************************************************)
(* The batch import: findQuizFiles, insertQuiz and main.                   *)
(***************************************************************************)
\* s.endsWith(suffix)
EndsWith(s, suffix) ==
    Len(s) >= Len(suffix)
    /\ SubSeq(s, Len(s) - Len(suffix) + 1, Len(s)) = suffix

\* file.includes('quiz') && file.endsWith('.md')
IsQuizFileName(name) == IndexOf(name, "quiz", 1) # 0 /\ EndsWith(name, ".md")

\* the walk over the tree, which keeps the directory order
findQuizFiles(t) ==
    SelectSeq(t, LAMBDA f : IsQuizFileName(f.path[Len(f.path)]))

\* the row of a chapter_id met again is deleted and inserted anew
DeleteAndInsert(rows, quiz, id, at) ==
    {r \in rows : r.chapter_id # quiz.chapter_id} \cup
    {[id |-> id, chapter_id |-> quiz.chapter_id, title |-> quiz.title,
      description |-> quiz.description,
      passing_percentage |-> quiz.passing_percentage,
      questions |-> [questions |-> quiz.questions],
      created_at |-> at, updated_at |-> at]}

\* INSERT ... ON CONFLICT (chapter_id) DO UPDATE SET title, description,
\* passing_percentage, questions, updated_at
Upsert(rows, quiz, id, at) ==
    IF \E r \in rows : r.chapter_id = quiz.chapter_id
    THEN {IF r.chapter_id = quiz.chapter_id
          THEN [r EXCEPT !.title = quiz.title,
                         !.description = quiz.description,
                         !.passing_percentage = quiz.passing_percentage,
                         !.questions = [questions |-> quiz.questions],
                         !.updated_at = at]
          ELSE r : r \in rows}
    ELSE rows \cup
         {[id |-> id, chapter_id |-> quiz.chapter_id, title |-> quiz.title,
           description |-> quiz.description,
           passing_percentage |-> quiz.passing_percentage,
           questions |-> [questions |-> quiz.questions],
           created_at |-> at, updated_at |-> at]}

\* main().catch(console.error): a rejection of main() is logged and the
\* process ends with the status of a normal end
RejectionExit == 0

Path1 == <<"docs", "chapter-02-markdown", "06-quiz-markdown.md">>
Path2 == <<"docs", "chapter-02-markdown", "07-quiz-extra.md">>
Path3 == <<"docs", "appendix", "quiz-final.md">>
Path4 == <<"docs", "chapter-02-markdown", "01-intro.md">>

\* the contents a file of the tree can have
ImportTexts ==
    {<<HeadTopic, OptA, BoldOptB, AnsB>>,
     <<TitleLine, Intro, HeadTopic, OptA, Legacy1>>,
     <<Blank, OptA, AnsB>>,
     <<HeadBare, Blank, OptA>>,
     <<>>}

FilesAt(path) ==
    {[path |-> path, readable |-> TRUE, lines |-> l] : l \in ImportTexts}
    \cup {[path |-> path, readable |-> FALSE, lines |-> <<>>]}

\* a path of the tree holds a file or nothing
EntryAt(path) == {<<f>> : f \in FilesAt(path)} \cup {<<>>}

\* a file that is no quiz file, whatever it holds
IntroFile ==
    [path |-> Path4, readable |-> TRUE, lines |-> <<HeadTopic, OptA, AnsB>>]

ImportInit ==
    /\ \E a \in EntryAt(Path1), b \in EntryAt(Path2), c \in EntryAt(Path3) :
          tree = a \o b \o c \o <<IntroFile>>
    /\ dirOk \in BOOLEAN
    /\ envUrl \in BOOLEAN
    /\ mpc = "start"
    /\ mfiles = <<>>
    /\ mi = 1
    /\ mquizzes = <<>>
    /\ exitCode = -1
    /\ runs = 1
    /\ failure = "none"
    /\ msrc = <<>>
    /\ inserted = {}
    /\ snapshot = <<>>
    /\ DbEmpty
    /\ ParseIdle
    /\ ScoreIdle
    /\ SubmitIdle
    /\ ExtraIdle

\* the process ends: process.exit(code), or the end of main()
Exit(code, why) ==
    /\ mpc' = "exited"
    /\ exitCode' = code
    /\ failure' = why

\* const quizFiles = findQuizFiles(docsDir), outside any try
MainFind ==
    /\ mpc = "start"
    /\ IF dirOk
       THEN /\ mfiles' = findQuizFiles(tree)
            /\ mpc' = "parse"
            /\ UNCHANGED <<exitCode, failure>>
       ELSE /\ Exit(RejectionExit, "readdir")
            /\ UNCHANGED mfiles
    /\ mi' = 1
    /\ UNCHANGED <<tree, dirOk, envUrl, mquizzes, runs, msrc, inserted,
                   snapshot, dbVars, offImport>>

\* the loop over the files ends at the first file that gives no quiz
StopAtFailure(i, res) == IF res.quiz = <<>> THEN Len(mfiles) + 1 ELSE i + 1

\* for (const file of quizFiles): the file after the one just parsed
NextFile(i, res) == i + 1

\* one pass of: for (const file of quizFiles) { const quiz = parseQuizFile(file);
\* if (quiz) quizzes.push(quiz) }
MainParse ==
    /\ mpc = "parse"
    /\ mi <= Len(mfiles)
    /\ LET res == parseQuizFile(mfiles[mi])
       IN  IF res.quiz # <<>>
           THEN /\ mquizzes' = Append(mquizzes, res.quiz[1])
                /\ msrc' = Append(msrc, mi)
           ELSE UNCHANGED <<mquizzes, msrc>>
    /\ mi' = NextFile(mi, parseQuizFile(mfiles[mi]))
    /\ UNCHANGED <<tree, dirOk, envUrl, mpc, mfiles, exitCode, runs, failure,
                   inserted, snapshot, dbVars, offImport>>

\* if (!process.env.NEON_DATABASE_URL) process.exit(1)
MainEnv ==
    /\ mpc = "parse"
    /\ mi > Len(mfiles)
    /\ IF envUrl
       THEN /\ mpc' = "pool"
            /\ UNCHANGED <<exitCode, failure>>
       ELSE Exit(1, "env")
    /\ UNCHANGED <<tree, dirOk, envUrl, mfiles, mi, mquizzes, runs, msrc,
                   inserted, snapshot, dbVars, offImport>>

\* const pool = new Pool(...), outside the try
MainPool ==
    /\ mpc = "pool"
    /\ \E ok \in BOOLEAN :
          IF ok
          THEN /\ mpc' = "insert"
               /\ UNCHANGED <<exitCode, failure>>
          ELSE Exit(RejectionExit, "pool")
    /\ mi' = 1
    /\ UNCHANGED <<tree, dirOk, envUrl, mfiles, mquizzes, runs, msrc,
                   inserted, snapshot, dbVars, offImport>>

\* insertQuiz(pool, quiz): the statement succeeds, or it fails and the error
\* is thrown again
insertQuiz(quiz, ok) ==
    /\ idSeq' = idSeq + 1
    /\ now' = now + 1
    /\ IF ok
       THEN /\ table' = Upsert(table, quiz, idSeq + 1, now)
            /\ firstRow' =
                  IF quiz.chapter_id \in DOMAIN firstRow THEN firstRow
                  ELSE MapSet(firstRow, quiz.chapter_id,
                              CHOOSE r \in table' :
                                  r.chapter_id = quiz.chapter_id)
            /\ lastQuiz' = MapSet(lastQuiz, quiz.chapter_id, quiz)
       ELSE UNCHANGED <<table, firstRow, lastQuiz>>

\* one pass of: for (const quiz of quizzes) { await insertQuiz(pool, quiz) },
\* inside try { } catch { process.exit(1) }
MainInsert ==
    /\ mpc = "insert"
    /\ mi <= Len(mquizzes)
    /\ \E ok \in BOOLEAN :
          /\ insertQuiz(mquizzes[mi], ok)
          /\ IF ok
             THEN /\ mi' = mi + 1
                  /\ UNCHANGED <<mpc, exitCode, failure>>
             ELSE /\ Exit(1, "insert")
                  /\ UNCHANGED mi
    /\ inserted' = inserted \cup {msrc[mi]}
    /\ UNCHANGED <<tree, dirOk, envUrl, mfiles, mquizzes, runs, msrc,
                   snapshot, offImport>>

\* the summary query, then finally { await pool.end() } and the end of main
MainSummary ==
    /\ mpc = "insert"
    /\ mi > Len(mquizzes)
    /\ UNCHANGED dbVars
    /\ \E ok \in BOOLEAN :
          IF ok THEN Exit(0, "none") ELSE Exit(1, "summary")
    /\ UNCHANGED <<tree, dirOk, envUrl, mfiles, mi, mquizzes, runs, msrc,
                   inserted, snapshot, offImport>>

\* the script is started again over the same tree
MainAgain ==
    /\ mpc = "exited"
    /\ runs < MaxRuns
    /\ runs' = runs + 1
    /\ mpc' = "start"
    /\ mfiles' = <<>>
    /\ mi' = 1
    /\ mquizzes' = <<>>
    /\ msrc' = <<>>
    /\ inserted' = {}
    /\ exitCode' = -1
    /\ failure' = "none"
    /\ snapshot' = IF failure = "none" THEN <<table>> ELSE <<>>
    /\ UNCHANGED <<tree, dirOk, envUrl, dbVars, offImport>>

ImportNext ==
    \/ MainFind
    \/ MainParse
    \/ MainEnv
    \/ MainPool
    \/ MainInsert
    \/ MainSummary
    \/ MainAgain

SpecImport == ImportInit /\ [][ImportNext]_vars

(***************************************************************************)
(* Properties of the parser.                                               *)
(***************************************************************************)
Returned == outcome.quiz[1].questions

OptionKeysOf(q) == {q.options[j].key : j \in 1..Len(q.options)}

\* C1: a question that has an inline answer or an inline explanation keeps
\* it in the returned quiz, also when the legacy answer key has an entry at
\* the question's position.
C1_InlineKept ==
    (ppc = "done" /\ outcome.quiz # <<>>) =>
        \A i \in 1..Len(Returned) :
            LET inline == ScannedQuestions(doc.lines)[i]
            IN  /\ inline.correct_answer # "" =>
                      Returned[i].correct_answer = inline.correct_answer
                /\ inline.explanation # "" =>
                      Returned[i].explanation = inline.explanation

\* C2: every question of a returned quiz has a text that is not empty and at
\* least one option.
C2_TextAndOption ==
    (ppc = "done" /\ outcome.quiz # <<>>) =>
        \A i \in 1..Len(Returned) :
            Returned[i].question # "" /\ Len(Returned[i].options) >= 1

\* C4: every question of a returned quiz whose correct answer is none of its
\* option keys is among the questions the warning counts, and the returned
\* quiz holds every question the scan collected.
C4_MismatchFlagged ==
    (ppc = "done" /\ outcome.quiz # <<>>) =>
        /\ \A i \in 1..Len(Returned) :
              Returned[i].correct_answer \notin OptionKeysOf(Returned[i]) =>
                  i \in outcome.invalid
        /\ Len(Returned) = Len(ScannedQuestions(doc.lines))

(***************************************************************************)
(* Properties of the batch import.                                         *)
(***************************************************************************)
\* a question heading is met in the file
HasQuestionHeading(file) ==
    file.readable /\ \E i \in 1..Len(file.lines) : IsQuestionHeading(file.lines[i])

\* C3: a document in which no question is recognized gives no quiz and
\* nothing of it is stored; no quiz and no stored row has an empty list of
\* questions.
C3_NoQuizFound ==
    /\ \A k \in 1..Len(mquizzes) :
          /\ mquizzes[k].questions # <<>>
          /\ HasQuestionHeading(mfiles[msrc[k]])
    /\ \A i \in inserted : HasQuestionHeading(mfiles[i])
    /\ \A r \in table : r.questions.questions # <<>>
    /\ \A i \in 1..Len(mfiles) :
          ~HasQuestionHeading(mfiles[i]) => parseQuizFile(mfiles[i]).quiz = <<>>

\* a document without a question was parsed and skipped, and the run went
\* on to store another document's quiz
C3_Witness ==
    /\ mpc = "exited"
    /\ exitCode = 0
    /\ table # {}
    /\ \E i \in 1..Len(mfiles) :
          /\ mfiles[i].readable
          /\ mfiles[i].lines # <<>>
          /\ ~HasQuestionHeading(mfiles[i])
          /\ i \notin inserted

\* the columns of a row that an import sets
Content(r) ==
    [chapter_id |-> r.chapter_id, title |-> r.title,
     description |-> r.description,
     passing_percentage |-> r.passing_percentage, questions |-> r.questions]

\* the row of the table that identity and creation time belong to
Identity(r) == [id |-> r.id, chapter_id |-> r.chapter_id, created_at |-> r.created_at]

\* C5: the table holds exactly one row for each chapter_id inserted; the row
\* has the title, description, passing percentage and questions of the latest
\* insert and the id and creation time of the first; a second run of the
\* import over the same documents leaves the rows of the first run.
C5_Upsert ==
    /\ {r.chapter_id : r \in table} = DOMAIN lastQuiz
    /\ \A r1, r2 \in table : r1.chapter_id = r2.chapter_id => r1 = r2
    /\ \A r \in table :
          /\ r.title = lastQuiz[r.chapter_id].title
          /\ r.description = lastQuiz[r.chapter_id].description
          /\ r.passing_percentage = lastQuiz[r.chapter_id].passing_percentage
          /\ r.questions.questions = lastQuiz[r.chapter_id].questions
          /\ r.id = firstRow[r.chapter_id].id
          /\ r.created_at = firstRow[r.chapter_id].created_at
    /\ (mpc = "exited" /\ failure = "none" /\ snapshot # <<>>) =>
          /\ {Content(r) : r \in table} = {Content(r) : r \in snapshot[1]}
          /\ {Identity(r) : r \in table} = {Identity(r) : r \in snapshot[1]}

\* a second run has ended over a table in which a chapter_id was inserted
\* more than once, by two documents of one chapter with different questions
C5_Witness ==
    /\ mpc = "exited"
    /\ failure = "none"
    /\ snapshot # <<>>
    /\ \E r \in table :
          /\ r.updated_at > r.created_at
          /\ \E k \in 1..Len(mquizzes) :
                /\ mquizzes[k].chapter_id = r.chapter_id
                /\ mquizzes[k].questions # r.questions.questions

\* C10: a run that ends on a failure main does not handle per document ends
\* with an exit status other than zero.
C10_NonZeroExit ==
    (mpc = "exited" /\ failure # "none") => exitCode # 0

(***************************************************************************)
(* The grading of a submission (the route behind POST /api/quiz/submit).   *)
(* A stored quiz is [id, passing_percentage, questions]; the answers of a  *)
(* submission are a function from question identifiers to answer keys.     *)
(***************************************************************************)
QuestionIds(quiz) == {quiz.questions[i].id : i \in 1..Len(quiz.questions)}

\* every question of the quiz has an answer; answers to other identifiers
\* are refused when the check is strict
CompleteSubmission(quiz, given, exact) ==
    /\ QuestionIds(quiz) \subseteq DOMAIN given
    /\ exact => DOMAIN given \subseteq QuestionIds(quiz)

\* the number of questions whose submitted key is the stored key
CorrectCount(quiz, given) ==
    Cardinality({i \in 1..Len(quiz.questions) :
        given[quiz.questions[i].id] = quiz.questions[i].correct_answer})

\* the percentage cut off instead of rounded
ScoreFloor(correct, total) == (100 * correct) \div total

\* round(100 * correct / total)
ScorePercentage(correct, total) == (200 * correct + total) \div (2 * total)

\* passed = score_percentage >= passing_percentage
Passed(score, passing) == score >= passing

\* the result of grading: a rejection, or the scored quiz
gradeSubmission(quizOpt, given, exact) ==
    IF quizOpt = <<>> THEN [status |-> "not_found"]
    ELSE IF ~CompleteSubmission(quizOpt[1], given, exact)
    THEN [status |-> "invalid"]
    ELSE LET quiz == quizOpt[1]
             total == Len(quiz.questions)
             correct == CorrectCount(quiz, given)
             score == ScorePercentage(correct, total)
         IN  [status |-> "ok",
              total_questions |-> total,
              correct_answers |-> correct,
              score_percentage |-> score,
              passed |-> Passed(score, quiz.passing_percentage)]

(***************************************************************************)
(* The grading on its own: every quiz of at most MaxQuestions questions    *)
(* and every submission to it.                                             *)
(***************************************************************************)
QuestionId(i) == "q" \o ToString(i)

StoredKeys == {"A", "B"}

\* a submitted key can differ from a stored one by its case only
SubmittedKeys == {"A", "B", "a"}

PassingValues == {0, 1, 50, 67, 70, 100}

QuizOfKeys(keys, passing) ==
    [id |-> 7, passing_percentage |-> passing,
     questions |-> [i \in 1..Len(keys) |->
                      [id |-> QuestionId(i), correct_answer |-> keys[i]]]]

ScoreQuizzes ==
    {QuizOfKeys(keys, passing) :
        keys \in SeqsUpTo(StoredKeys, MaxQuestions) \ {<<>>},
        passing \in PassingValues}

\* the identifiers a submission can name: those of a quiz and one more
SubmittedIds == {QuestionId(i) : i \in 1..MaxQuestions} \cup {"q99"}

Submissions ==
    UNION {[ids -> SubmittedKeys] : ids \in SUBSET SubmittedIds}

ScoreInit ==
    /\ squiz \in {<<q>> : q \in ScoreQuizzes} \cup {<<>>}
    /\ ssub \in Submissions
    /\ strict \in BOOLEAN
    /\ spc = "ready"
    /\ sres = NotGraded
    /\ ParseIdle
    /\ ImportIdle
    /\ DbEmpty
    /\ SubmitIdle
    /\ ExtraIdle

\* the grading of the submission
Grade ==
    /\ spc = "ready"
    /\ spc' = "done"
    /\ sres' = gradeSubmission(squiz, ssub, strict)
    /\ UNCHANGED <<squiz, ssub, strict, parseVars, importVars, dbVars,
                   submitVars, extraVars>>

ScoreNext == Grade

SpecScore == ScoreInit /\ [][ScoreNext]_vars

\* the questions of the quiz that the submission answers with the stored key
Matching == {i \in 1..Len(squiz[1].questions) :
                squiz[1].questions[i].id \in DOMAIN ssub
                /\ ssub[squiz[1].questions[i].id] =
                      squiz[1].questions[i].correct_answer}

\* C8: an accepted submission has score_percentage = round(100 * correct /
\* total) and passed = (score_percentage >= passing_percentage); all keys
\* matching gives 100 and passes for a passing percentage of at most 100,
\* none matching gives 0 and fails for a passing percentage above 0.
C8_Score ==
    (spc = "done" /\ sres.status = "ok") =>
        LET total == Len(squiz[1].questions)
            correct == Cardinality(Matching)
            score == sres.score_percentage
            passing == squiz[1].passing_percentage
            diff == score * total - 100 * correct
        IN  /\ 2 * diff <= total /\ -2 * diff <= total
            /\ sres.passed = (score >= passing)
            /\ correct = total => (score = 100 /\ (passing <= 100 => sres.passed))
            /\ correct = 0 => (score = 0 /\ (passing > 0 => ~sres.passed))

\* two of three answers match: the percentage is rounded up to 67, which
\* passes at 67 and fails at 70
C8_Witness ==
    /\ spc = "done"
    /\ sres.status = "ok"
    /\ Len(squiz[1].questions) = 3
    /\ Cardinality(Matching) = 2
    /\ sres.score_percentage = 67
    /\ squiz[1].passing_percentage = 67
    /\ sres.passed

(***************************************************************************)
(* The submission flow: QuizInterface instances of signed-in learners, and *)
(* the grading route that numbers and stores the attempts.                 *)
(***************************************************************************)
Tabs == {1, 2}
Learners == {"u1", "u2"}
\* the option keys a learner picks here
AnswerKeys == {"A"}

\* the quiz as it was when the pages were loaded, and with a question added
Quiz2 == QuizOfKeys(<<"A", "B">>, DefaultPassing)
Quiz3 == QuizOfKeys(<<"A", "B", "A">>, DefaultPassing)
StoreValues == {<<>>, <<Quiz2>>, <<Quiz3>>}

\* the props quizId and questions of every QuizInterface
PropsQuizId == Quiz2.id
PropsQuestions == Quiz2.questions

\* questions[currentQuestionIndex]
CurrentQuestion(t) == PropsQuestions[idx[t] + 1]

\* the submit button is enabled whatever is answered
SubmitAlwaysEnabled(t) == TRUE

\* answeredCount === questions.length
AllAnswered(t) == Cardinality(DOMAIN answers[t]) = Len(PropsQuestions)

\* every response is taken for a success
AnyResponseOk(resp) == TRUE

\* Date.prototype.toISOString of the time d
ToISOString(d) == [iso |-> d]

\* the time of the submission is sent
StartedNow(t) == ToISOString(wall)

\* started_at: quizStartTime.toISOString()
StartedAt(t) == ToISOString(quizStartTime[t])

\* disabled={... || isSubmitting}: no submission of the tab is under way
NotSubmitting(t) == ~isSubmitting[t]

\* isSubmitting stays as it is
SubmitStuck(t) == isSubmitting

\* finally: setIsSubmitting(false)
SubmitEnded(t) == [isSubmitting EXCEPT ![t] = FALSE]

\* response.ok
ResponseOk(resp) == resp.ok

SubmitInit ==
    /\ store = <<Quiz2>>
    /\ tabUser \in {f \in [Tabs -> Learners] : f[1] = "u1"}
    /\ answers = [t \in Tabs |-> <<>>]
    /\ idx = [t \in Tabs |-> 0]
    /\ isSubmitting = [t \in Tabs |-> FALSE]
    /\ results = [t \in Tabs |-> <<>>]
    /\ req = [t \in Tabs |-> <<>>]
    /\ attempts = EmptyBag
    /\ attemptSeq = [u \in Learners |-> 0]
    /\ lock = [u \in Learners |-> 0]
    /\ maxAssigned = [u \in Learners |-> 0]
    /\ afterDelete = FALSE
    /\ overlapped = FALSE
    /\ wall = 0
    /\ quizStartTime = [t \in Tabs |-> wall]
    /\ ParseIdle
    /\ ImportIdle
    /\ DbEmpty
    /\ ScoreIdle
    /\ ExtraIdle

offSubmit ==
    <<parseVars, importVars, dbVars, scoreVars, tabUser, mountVars, extraVars>>

\* the alert of a failed submission is open: it blocks the page until it is
\* dismissed
AlertOpen(t) == req[t] # <<>> /\ req[t][1].phase = "alert"

\* the quiz taking view is shown and takes events
QuizView(t) == results[t] = <<>> /\ ~AlertOpen(t)

\* setAnswers(prev => ({ ...prev, [questionId]: answerKey })), from the radio
\* buttons of the current question in the quiz taking view
handleAnswerSelect(t, key) ==
    /\ QuizView(t)
    /\ answers' = [answers EXCEPT ![t] = MapSet(@, CurrentQuestion(t).id, key)]
    /\ UNCHANGED <<idx, isSubmitting, results, req, serverVars, offSubmit>>

handleNext(t) ==
    /\ QuizView(t)
    /\ idx[t] < Len(PropsQuestions) - 1
    /\ idx' = [idx EXCEPT ![t] = @ + 1]
    /\ UNCHANGED <<answers, isSubmitting, results, req, serverVars, offSubmit>>

handlePrevious(t) ==
    /\ QuizView(t)
    /\ idx[t] > 0
    /\ idx' = [idx EXCEPT ![t] = @ - 1]
    /\ UNCHANGED <<answers, isSubmitting, results, req, serverVars, offSubmit>>

\* handleSubmit up to the fetch: the button is enabled when every question is
\* answered and no submission is under way
handleSubmit(t) ==
    /\ QuizView(t)
    /\ AllAnswered(t)
    /\ NotSubmitting(t)
    /\ isSubmitting' = [isSubmitting EXCEPT ![t] = TRUE]
    /\ req' = [req EXCEPT ![t] =
                  <<[phase |-> "sent", quiz_id |-> PropsQuizId,
                     started_at |-> StartedAt(t),
                     given |-> answers[t], readCount |-> 0,
                     response |-> [ok |-> FALSE, status |-> "none"]]>>]
    /\ UNCHANGED <<answers, idx, results, serverVars, offSubmit>>

\* handleSubmit from the response on: setResults and, in finally,
\* setIsSubmitting(false); or the throw, caught, and the alert
handleResponse(t) ==
    /\ req[t] # <<>>
    /\ req[t][1].phase = "done"
    /\ IF ResponseOk(req[t][1].response)
       THEN /\ results' = [results EXCEPT ![t] = <<req[t][1].response>>]
            /\ isSubmitting' = SubmitEnded(t)
            /\ req' = [req EXCEPT ![t] = <<>>]
       ELSE /\ req' = [req EXCEPT ![t] = <<[@[1] EXCEPT !.phase = "alert"]>>]
            /\ UNCHANGED <<results, isSubmitting>>
    /\ UNCHANGED <<answers, idx, serverVars, offSubmit>>

\* the fetch of the submission is rejected (no response): the catch block
\* and its alert
fetchRejected(t) ==
    /\ req[t] # <<>>
    /\ req[t][1].phase = "sent"
    /\ req' = [req EXCEPT ![t] = <<[@[1] EXCEPT !.phase = "alert"]>>]
    /\ UNCHANGED <<tabVars, serverVars, offSubmit>>

\* the alert is dismissed: finally, setIsSubmitting(false)
dismissAlert(t) ==
    /\ AlertOpen(t)
    /\ isSubmitting' = SubmitEnded(t)
    /\ req' = [req EXCEPT ![t] = <<>>]
    /\ UNCHANGED <<answers, idx, results, serverVars, offSubmit>>

handleRetake(t) ==
    /\ results[t] # <<>>
    /\ answers' = [answers EXCEPT ![t] = <<>>]
    /\ idx' = [idx EXCEPT ![t] = 0]
    /\ results' = [results EXCEPT ![t] = <<>>]
    /\ UNCHANGED <<isSubmitting, req, serverVars, offSubmit>>

\* the quiz the route finds under the identifier of the request
QuizFound(r) ==
    IF store # <<>> /\ store[1].id = r.quiz_id THEN store ELSE <<>>

\* the rows of a learner in the attempts table
PersistedAttempts(u) ==
    BagCardinality([a \in {b \in BagToSet(attempts) : b.learner = u} |->
                        CopiesIn(a, attempts)])

\* the count of the rows of a learner that are still stored
CountStoredRows(u) == PersistedAttempts(u)

\* the count of prior attempts of a learner on the quiz, deleted or not
PriorAttempts(u) == attemptSeq[u]

\* the numbering of a learner is taken whatever its state
LockIgnored(u) == TRUE

\* the serializing guarantee: no other request holds the numbering
LockFree(u) == lock[u] = 0

\* the route refuses the request: the quiz is not found, or the submission
\* is not valid; nothing is stored
GradeReject(t) ==
    /\ req[t] # <<>>
    /\ req[t][1].phase = "sent"
    /\ LET res == gradeSubmission(QuizFound(req[t][1]), req[t][1].given, TRUE)
       IN  /\ res.status # "ok"
           /\ req' = [req EXCEPT ![t] =
                <<[@[1] EXCEPT !.phase = "done",
                     !.response = [ok |-> FALSE, status |-> res.status]]>>]
    /\ UNCHANGED <<tabVars, serverVars, offSubmit>>

\* the route scores the submission, takes the numbering of the learner and
\* reads the count of prior attempts
GradeBegin(t) ==
    /\ req[t] # <<>>
    /\ req[t][1].phase = "sent"
    /\ LET res == gradeSubmission(QuizFound(req[t][1]), req[t][1].given, TRUE)
           u == tabUser[t]
       IN  /\ res.status = "ok"
           /\ LockFree(u)
           /\ attemptSeq[u] < MaxAttempts
           /\ lock' = [lock EXCEPT ![u] = t]
           /\ req' = [req EXCEPT ![t] =
                <<[@[1] EXCEPT !.phase = "locked",
                     !.readCount = PriorAttempts(u),
                     !.response = [ok |-> TRUE, status |-> "ok",
                                   score_percentage |-> res.score_percentage,
                                   passed |-> res.passed,
                                   attempt_number |-> 0]]>>]
    /\ UNCHANGED <<tabVars, store, attempts, attemptSeq, maxAssigned,
                   afterDelete, overlapped, offSubmit>>

\* the route stores the attempt under the number 1 + the count read and gives
\* the numbering back; or the storing fails and nothing is stored
GradeCommit(t) ==
    /\ req[t] # <<>>
    /\ req[t][1].phase = "locked"
    /\ LET u == tabUser[t]
           r == req[t][1]
           number == 1 + r.readCount
           attempt == [learner |-> u, quiz_id |-> r.quiz_id,
                       attempt_number |-> number,
                       score_percentage |-> r.response.score_percentage,
                       passed |-> r.response.passed]
       IN  /\ \E ok \in BOOLEAN :
                IF ok
                THEN /\ attempts' = attempts (+) SetToBag({attempt})
                     /\ attemptSeq' = [attemptSeq EXCEPT ![u] = @ + 1]
                     /\ maxAssigned' = [maxAssigned EXCEPT ![u] =
                            IF number > @ THEN number ELSE @]
                     /\ afterDelete' =
                            (afterDelete \/ PersistedAttempts(u) < attemptSeq[u])
                     /\ overlapped' =
                            (overlapped \/
                             \E o \in Tabs \ {t} :
                                /\ tabUser[o] = u
                                /\ req[o] # <<>>
                                /\ req[o][1].phase \in {"sent", "locked"})
                     /\ req' = [req EXCEPT ![t] =
                           <<[r EXCEPT !.phase = "done",
                                !.response.attempt_number = number]>>]
                ELSE /\ req' = [req EXCEPT ![t] =
                           <<[r EXCEPT !.phase = "done",
                                !.response = [ok |-> FALSE, status |-> "error"]]>>]
                     /\ UNCHANGED <<attempts, attemptSeq, maxAssigned,
                                    afterDelete, overlapped>>
           /\ lock' = [lock EXCEPT ![u] = 0]
    /\ UNCHANGED <<tabVars, store, offSubmit>>

\* a row of the attempts table is deleted
DeleteAttempt ==
    /\ \E a \in BagToSet(attempts) : attempts' = attempts (-) SetToBag({a})
    /\ UNCHANGED <<tabVars, req, store, attemptSeq, lock, maxAssigned,
                   afterDelete, overlapped, offSubmit>>

\* the stored quiz is replaced by an import, or removed
StoreChange ==
    /\ \E v \in StoreValues \ {store} : store' = v
    /\ UNCHANGED <<tabVars, req, attempts, attemptSeq, lock, maxAssigned,
                   afterDelete, overlapped, offSubmit>>

SubmitNext ==
    \/ \E t \in Tabs, key \in AnswerKeys : handleAnswerSelect(t, key)
    \/ \E t \in Tabs : handleNext(t)
    \/ \E t \in Tabs : handlePrevious(t)
    \/ \E t \in Tabs : handleSubmit(t)
    \/ \E t \in Tabs : handleResponse(t)
    \/ \E t \in Tabs : fetchRejected(t)
    \/ \E t \in Tabs : dismissAlert(t)
    \/ \E t \in Tabs : handleRetake(t)
    \/ \E t \in Tabs : GradeReject(t)
    \/ \E t \in Tabs : GradeBegin(t)
    \/ \E t \in Tabs : GradeCommit(t)
    \/ DeleteAttempt
    \/ StoreChange

SpecSubmit == SubmitInit /\ [][SubmitNext]_vars

\* one QuizInterface, mounted at some time of the browser's clock
QuizInit ==
    /\ store = <<Quiz2>>
    /\ tabUser = [t \in Tabs |-> "u1"]
    /\ answers = [t \in Tabs |-> <<>>]
    /\ idx = [t \in Tabs |-> 0]
    /\ isSubmitting = [t \in Tabs |-> FALSE]
    /\ results = [t \in Tabs |-> <<>>]
    /\ req = [t \in Tabs |-> <<>>]
    /\ attempts = EmptyBag
    /\ attemptSeq = [u \in Learners |-> 0]
    /\ lock = [u \in Learners |-> 0]
    /\ maxAssigned = [u \in Learners |-> 0]
    /\ afterDelete = FALSE
    /\ overlapped = FALSE
    /\ wall \in 0..1
    /\ quizStartTime = [t \in Tabs |-> wall]
    /\ ParseIdle
    /\ ImportIdle
    /\ DbEmpty
    /\ ScoreIdle
    /\ ExtraIdle

\* a tick of the browser's clock passes
WallTick ==
    /\ wall < MaxWall
    /\ wall' = wall + 1
    /\ UNCHANGED <<parseVars, importVars, dbVars, scoreVars, extraVars,
                   tabUser, tabVars, req, serverVars, quizStartTime>>

QuizNext ==
    \/ \E key \in AnswerKeys : handleAnswerSelect(1, key)
    \/ handleNext(1)
    \/ handlePrevious(1)
    \/ handleSubmit(1)
    \/ handleResponse(1)
    \/ fetchRejected(1)
    \/ dismissAlert(1)
    \/ handleRetake(1)
    \/ GradeReject(1)
    \/ GradeBegin(1)
    \/ GradeCommit(1)
    \/ StoreChange
    \/ WallTick

SpecQuiz == QuizInit /\ [][QuizNext]_vars

\* a step in which the tab sends a new submission
NewSubmission(t) ==
    /\ req'[t] # req[t]
    /\ req'[t] # <<>>
    /\ req'[t][1].phase = "sent"

\* C22: when a submission fails, by a response that is not OK or by a
\* network error, the QuizInterface stays in the quiz taking view: results
\* stays null, the answers and the current question index are as they
\* were, isSubmitting is false again and the same answers can be submitted
\* again; isSubmitting is false after every submission.
C22_FailureKeepsQuiz ==
    /\ [](\A t \in Tabs : req[t] = <<>> => ~isSubmitting[t])
    /\ [][\A t \in Tabs :
            /\ (~AlertOpen(t) /\ AlertOpen(t)') =>
                    /\ answers'[t] = answers[t]
                    /\ idx'[t] = idx[t]
                    /\ results'[t] = <<>>
            /\ (AlertOpen(t) /\ ~AlertOpen(t)') =>
                    /\ answers'[t] = answers[t]
                    /\ idx'[t] = idx[t]
                    /\ QuizView(t)'
                    /\ AllAnswered(t)'
                    /\ NotSubmitting(t)']_vars

\* the page of one tab shows the alert of a fetch that was rejected, the
\* page of the other the alert of a response that was not OK
C22_Witness ==
    /\ AlertOpen(1)
    /\ req[1][1].response.status = "none"
    /\ AlertOpen(2)
    /\ req[2][1].response.status # "none"
    /\ AllAnswered(1)
    /\ results[1] = <<>>

\* C29: handleRetake resets the answers, the question index and the
\* results and leaves quizStartTime as it is; every submission of one
\* mounted QuizInterface carries the same started_at, that of its mount.
C29_SameStartedAt ==
    [][/\ quizStartTime' = quizStartTime
       /\ \A t \in Tabs :
            /\ NewSubmission(t) =>
                    req'[t][1].started_at = ToISOString(quizStartTime[t])
            /\ (results[t] # <<>> /\ results'[t] = <<>>) =>
                    /\ answers'[t] = <<>>
                    /\ idx'[t] = 0]_vars

\* after a stored attempt and a retake, a later submission of the same
\* QuizInterface is on its way
C29_Witness ==
    /\ req[1] # <<>>
    /\ req[1][1].phase = "sent"
    /\ attemptSeq["u1"] >= 1
    /\ wall > quizStartTime[1]
    /\ req[1][1].started_at = ToISOString(quizStartTime[1])

\* C30: a mounted QuizInterface has at most one submission in flight: a
\* new submission is sent only when none of the tab is under way.
C30_OneInFlight ==
    [][\A t \in Tabs : NewSubmission(t) => req[t] = <<>>]_vars

\* the route works on the submission of a tab whose submit button is
\* disabled for the time
C30_Witness ==
    /\ req[1] # <<>>
    /\ req[1][1].phase = "locked"
    /\ AllAnswered(1)
    /\ QuizView(1)
    /\ isSubmitting[1]

(***************************************************************************)
(* Properties of the submission flow.                                      *)
(***************************************************************************)
\* C6: no two stored attempts of one learner on one quiz have the same
\* attempt_number, however the submissions of the learner interleave.
C6_UniqueNumbers ==
    \A a \in BagToSet(attempts) :
        /\ CopiesIn(a, attempts) = 1
        /\ \A b \in BagToSet(attempts) :
              (/\ a.learner = b.learner
               /\ a.quiz_id = b.quiz_id
               /\ a.attempt_number = b.attempt_number) => a = b

\* two attempts of one learner are stored, one of them while another request
\* of the learner was under way
C6_Witness ==
    /\ overlapped
    /\ \E a, b \in BagToSet(attempts) : a # b /\ a.learner = b.learner

\* C7: an attempt is stored under 1 + the count of the learner's prior
\* attempts, and that number is larger than every number assigned to the
\* learner before, also after attempts were deleted.
C7_Monotonic ==
    [][\A a \in BagToSet(attempts') :
          CopiesIn(a, attempts') > CopiesIn(a, attempts) =>
              /\ a.attempt_number = 1 + attemptSeq[a.learner]
              /\ a.attempt_number > maxAssigned[a.learner]]_vars

\* the second attempt of a learner was stored after the first was deleted
C7_Witness ==
    /\ afterDelete
    /\ \E a \in BagToSet(attempts) :
          a.attempt_number = 2 /\ PersistedAttempts(a.learner) = 1

\* the route has to refuse the request of t: the quiz is not found, or one
\* of its questions has no answer
Rejectable(t) ==
    \/ store = <<>>
    \/ store[1].id # req[t][1].quiz_id
    \/ ~(QuestionIds(store[1]) \subseteq DOMAIN req[t][1].given)

\* C9: when the quiz is not found or the submission lacks an answer, the
\* request that reaches the route is answered with a rejection and the page shows the failure, not
\* a result; neither step changes the stored attempts.
C9_RejectionStoresNothing ==
    [][\A t \in Tabs :
          /\ (/\ req[t] # <<>>
              /\ req[t][1].phase = "sent"
              /\ Rejectable(t)
              /\ req'[t] # req[t]
              /\ ~AlertOpen(t)') =>
                  /\ attempts' = attempts
                  /\ req'[t] # <<>>
                  /\ req'[t][1].phase = "done"
                  /\ ~req'[t][1].response.ok
                  /\ req'[t][1].response.status \in {"not_found", "invalid"}
          /\ (/\ req[t] # <<>>
              /\ req[t][1].phase = "done"
              /\ req[t][1].response.status \in {"not_found", "invalid"}
              /\ req'[t] # req[t]) =>
                  /\ attempts' = attempts
                  /\ results'[t] = <<>>
                  /\ req'[t] # <<>>
                  /\ req'[t][1].phase = "alert"]_vars

\* one page shows the alert of a submission that lacked an answer, the other
\* that of a quiz not found
C9_Witness ==
    \E t, o \in Tabs :
        /\ AlertOpen(t)
        /\ req[t][1].response.status = "invalid"
        /\ AlertOpen(o)
        /\ req[o][1].response.status = "not_found"

(***************************************************************************)
(* Properties of the batch.                                                *)
(***************************************************************************)
\* the files of quizFiles before place n that parse to a quiz, in order
ParsedBefore(n) ==
    SelectSeq([i \in 1..(n - 1) |-> i],
              LAMBDA i : parseQuizFile(mfiles[i]).quiz # <<>>)

\* C11: a file that cannot be read or gives no quiz is skipped and the batch
\* goes on: every other file found is parsed, and every file that parses to
\* a quiz is passed to insertQuiz, unless the run is ended by a failure of
\* the environment or the database.
C11_BatchGoesOn ==
    /\ mpc = "parse" => msrc = ParsedBefore(mi)
    /\ (mpc \in {"pool", "insert"} \/ (mpc = "exited" /\ failure # "readdir"))
          => msrc = ParsedBefore(Len(mfiles) + 1)
    /\ mpc \in {"parse", "pool", "insert", "exited"} =>
          /\ Len(mquizzes) = Len(msrc)
          /\ \A k \in 1..Len(msrc) :
                mquizzes[k] = parseQuizFile(mfiles[msrc[k]]).quiz[1]
    /\ (mpc = "exited" /\ failure \in {"none", "summary"})
          => inserted = {msrc[k] : k \in 1..Len(msrc)}

\* a run has ended in which a file that could not be read came before a
\* file whose quiz was inserted
C11_Witness ==
    /\ mpc = "exited"
    /\ failure = "none"
    /\ \E i, j \in 1..Len(mfiles) :
          /\ i < j
          /\ parseQuizFile(mfiles[i]).error
          /\ j \in inserted

DirNames == {"docs", "appendix", "chapter-02-markdown", "chapter-03"}

\* names that findQuizFiles accepts
FileNames ==
    {"06-quiz-markdown.md", "quiz-final.md", "chapter-9-quiz.md",
     "quiz.md.old.md"}

ChapterPaths ==
    {Append(dirs, name) : dirs \in SeqsUpTo(DirNames, MaxDirs), name \in FileNames}

ChapterInit ==
    /\ cpath \in ChapterPaths
    /\ cpc = "ready"
    /\ cid = ""
    /\ ParseIdle
    /\ ImportIdle
    /\ DbEmpty
    /\ ScoreIdle
    /\ SubmitIdle
    /\ TrackIdle
    /\ ProgressIdle
    /\ FixIdle
    /\ MoreIdle

\* the call extractChapterId(cpath)
ExtractChapter ==
    /\ cpc = "ready"
    /\ cpc' = "done"
    /\ cid' = extractChapterId(cpath)
    /\ UNCHANGED <<cpath, parseVars, importVars, dbVars, scoreVars, submitVars,
                   trackVars, progressVars, fixVars, moreVars>>

ChapterNext == ExtractChapter

SpecChapter == ChapterInit /\ [][ChapterNext]_vars

\* the segments of a path that begin with 'chapter-'
ChapterSegments(path) ==
    {i \in 1..Len(path) : StartsWith(path[i], "chapter-")}

\* the last segment without its '.md' extension
BaseName(path) ==
    LET name == path[Len(path)]
    IN  IF EndsWith(name, ".md") THEN SubSeq(name, 1, Len(name) - 3) ELSE name

\* C13: extractChapterId returns the first segment that begins with
\* 'chapter-' followed by '-quiz', and the base name of the file, without
\* its '.md' extension, when no segment begins so.
C13_ChapterId ==
    cpc = "done" =>
        IF ChapterSegments(cpath) # {}
        THEN \E i \in ChapterSegments(cpath) :
                /\ \A j \in ChapterSegments(cpath) : i <= j
                /\ cid = cpath[i] \o "-quiz"
        ELSE cid = BaseName(cpath)

(***************************************************************************)
(* The description: parseQuizFile over every document of at most MaxLines  *)
(* lines that has a title, an introduction and a question.                 *)
(***************************************************************************)
DescribeLines ==
    {TitleLine, Intro, LongIntro, Blank, QSection, HeadTopic, OptA, BoldLine,
     ListItem}

DescribeDocs ==
    {[path |-> QuizPath, readable |-> TRUE, lines |-> l] :
        l \in SeqsUpTo(DescribeLines, MaxLines)}

DescribeInit ==
    /\ doc \in DescribeDocs
    /\ ppc = "ready"
    /\ outcome = NotParsed
    /\ previous = NotParsed
    /\ ImportIdle
    /\ DbEmpty
    /\ ScoreIdle
    /\ SubmitIdle
    /\ ExtraIdle

SpecDescribe == DescribeInit /\ [][ParseNext]_vars

\* the place of the first line of kind k, Len(lines) + 1 when there is none
RECURSIVE FirstOf(_, _, _)
FirstOf(lines, kinds, i) ==
    IF i > Len(lines) THEN i
    ELSE IF lines[i].k \in kinds THEN i
    ELSE FirstOf(lines, kinds, i + 1)

\* the lines after the title heading and before the first question or the
\* heading of the questions section
IntroSpan(lines) ==
    {i \in 1..Len(lines) :
        /\ i > FirstOf(lines, {"h1"}, 1)
        /\ i < FirstOf(lines, {"qsec", "qhead"}, 1)}

\* a line of plain text: not blank, not emphasis only, no list item, no
\* heading
IsPlainText(line) == line.k \in {"plain", "opt"}

\* the plain lines of places i and up within span, joined by single spaces
RECURSIVE JoinPlain(_, _, _)
JoinPlain(lines, span, i) ==
    IF i > Len(lines) THEN ""
    ELSE LET rest == JoinPlain(lines, span, i + 1)
         IN  IF i \in span /\ IsPlainText(lines[i])
             THEN IF rest = "" THEN Raw(lines[i])
                  ELSE Raw(lines[i]) \o " " \o rest
             ELSE rest

\* C14: the description is made of the plain lines after the title and
\* before the first question, joined by single spaces and cut to 200
\* characters; no line at or after the first question is part of it.
C14_Description ==
    (ppc = "done" /\ outcome.quiz # <<>>) =>
        LET joined == JoinPlain(doc.lines, IntroSpan(doc.lines), 1)
            cut == IF Len(joined) <= 200 THEN joined
                   ELSE SubSeq(joined, 1, 200)
            description == outcome.quiz[1].description
        IN  /\ Len(description) <= 200
            /\ description = IF cut = "" THEN "Test your knowledge!" ELSE cut

(***************************************************************************)
(* useProgressTracking: one component that uses the hook, its renders, its *)
(* unmount, and the timers of the page.  The clock counts ticks, each a    *)
(* TicksPerInterval-th of the interval.                                    *)
(***************************************************************************)
\* setInterval(trackTime, 30000)
IntervalMs == 30000

TickMs == IntervalMs \div TicksPerInterval

ChapterIds == {"", "ch1", "ch2"}

HookProps == [chapterId : ChapterIds, enabled : BOOLEAN]

\* the history of an interval set at the given time
NoCalls(at) ==
    [started |-> at, interval |-> 0, final |-> 0, late |-> 0, posts |-> 0]

\* the cleanup leaves the interval running
ClearNothing(ts, id) == ts

\* clearInterval(id)
ClearInterval(ts, id) ==
    IF id \in DOMAIN ts THEN [ts EXCEPT ![id].live = FALSE] ELSE ts

\* Math.floor((Date.now() - startTimeRef.current) / 1000)
Elapsed == ((clock - startTimeRef) * TickMs) \div 1000

\* how the fetch of a POST settles: a response with a 2xx status, a
\* response with another status, or a rejection (no response)
Outcomes == {"ok", "http_error", "network_error"}

\* the state trackTime and the effect work on
HookState ==
    [timers |-> timers, intervalIdRef |-> intervalIdRef,
     startTimeRef |-> startTimeRef, track |-> track, effect |-> effect,
     inflight |-> inflight, sent |-> sent]

\* trackTime() of the effect that set interval id, called from kind
\* "interval", "final" or "late", up to its await: the POST is made when
\* elapsed > 0, with the elapsed seconds computed at the call
TrackTime(id, kind, st) ==
    LET counted ==
            [st.track EXCEPT ![id] =
                [@ EXCEPT !.interval = @ + (IF kind = "interval" THEN 1 ELSE 0),
                          !.final = @ + (IF kind = "final" THEN 1 ELSE 0),
                          !.late = @ + (IF kind = "late" THEN 1 ELSE 0),
                          !.posts = @ + (IF Elapsed > 0 THEN 1 ELSE 0)]]
    IN  IF Elapsed > 0
        THEN [st EXCEPT
                !.track = counted,
                !.inflight = Append(@, [id |-> id,
                                        time_spent_seconds |-> Elapsed]),
                !.sent = @ + Elapsed]
        ELSE [st EXCEPT !.track = counted]

\* what trackTime does to startTimeRef.current after its await: the
\* assignment follows the fetch whatever the status of the response, and
\* is skipped only when the fetch rejected
AfterAwait(how) ==
    IF how = "network_error" THEN startTimeRef ELSE clock

\* the body of the effect for the arguments p, run at the state st
RunEffect(p, st) ==
    IF ~p.enabled \/ p.chapterId = ""
    THEN [st EXCEPT !.effect = <<>>]
    ELSE LET id == Len(st.timers) + 1
         IN  [st EXCEPT
                !.startTimeRef = clock,
                !.timers = Append(@, [chapterId |-> p.chapterId,
                                      due |-> clock + TicksPerInterval,
                                      live |-> TRUE]),
                !.track = Append(@, NoCalls(clock)),
                !.intervalIdRef = id,
                !.effect = <<id>>]

\* the cleanup the pending effect returned, if it returned one
RunCleanup ==
    IF effect = <<>> THEN HookState
    ELSE LET cleared == IF intervalIdRef # 0
                        THEN ClearInterval(timers, intervalIdRef)
                        ELSE timers
             called == TrackTime(effect[1], "final", HookState)
         IN  [called EXCEPT !.timers = cleared, !.effect = <<>>]

\* the hook is at the state st
HookBecomes(st) ==
    /\ timers' = st.timers
    /\ intervalIdRef' = st.intervalIdRef
    /\ startTimeRef' = st.startTimeRef
    /\ track' = st.track
    /\ effect' = st.effect
    /\ inflight' = st.inflight
    /\ sent' = st.sent

TrackInit ==
    /\ mounted = TRUE
    /\ props \in HookProps
    /\ clock = 0
    /\ settled = <<>>
    /\ LET st == RunEffect(props,
                    [timers |-> <<>>, intervalIdRef |-> 0, startTimeRef |-> 0,
                     track |-> <<>>, effect |-> <<>>, inflight |-> <<>>,
                     sent |-> 0])
       IN  /\ timers = st.timers
           /\ intervalIdRef = st.intervalIdRef
           /\ startTimeRef = st.startTimeRef
           /\ track = st.track
           /\ effect = st.effect
           /\ inflight = st.inflight
           /\ sent = st.sent
    /\ ParseIdle
    /\ ImportIdle
    /\ DbEmpty
    /\ ScoreIdle
    /\ SubmitIdle
    /\ ChapterIdle
    /\ ProgressIdle
    /\ FixIdle
    /\ MoreIdle

offTrack ==
    <<parseVars, importVars, dbVars, scoreVars, submitVars, chapterVars,
      progressVars, fixVars, moreVars>>

\* a timer of the page is due
SomeDue == \E id \in DOMAIN timers : timers[id].live /\ timers[id].due <= clock

\* a render with other arguments: [chapterId, enabled] changed, so the
\* cleanup of the old effect runs and then the new effect
HookRender(p) ==
    /\ mounted
    /\ p # props
    /\ ~SomeDue
    /\ Len(timers) < MaxEffects
    /\ Len(inflight) < MaxInFlight
    /\ props' = p
    /\ HookBecomes(RunEffect(p, RunCleanup))
    /\ UNCHANGED <<mounted, clock, settled, offTrack>>

\* the component is unmounted: the cleanup of the pending effect runs
HookUnmount ==
    /\ mounted
    /\ ~SomeDue
    /\ Len(inflight) < MaxInFlight
    /\ mounted' = FALSE
    /\ HookBecomes(RunCleanup)
    /\ UNCHANGED <<props, clock, settled, offTrack>>

\* the interval id fires: trackTime of the effect that set it
TimerFire(id) ==
    /\ id \in DOMAIN timers
    /\ timers[id].live
    /\ timers[id].due <= clock
    /\ Len(inflight) < MaxInFlight
    /\ LET called == TrackTime(id,
                        IF effect = <<id>> THEN "interval" ELSE "late",
                        HookState)
       IN  HookBecomes([called EXCEPT
                           !.timers[id].due = @ + TicksPerInterval])
    /\ UNCHANGED <<mounted, props, clock, settled, offTrack>>

\* the fetch of the k-th POST in flight settles, and the trackTime that
\* awaited it runs on
PostSettle(k, how) ==
    /\ k \in DOMAIN inflight
    /\ inflight' = [j \in 1..(Len(inflight) - 1) |->
                        IF j < k THEN inflight[j] ELSE inflight[j + 1]]
    /\ settled' = <<[id |-> inflight[k].id, outcome |-> how]>>
    /\ startTimeRef' = AfterAwait(how)
    /\ sent' = IF how = "network_error"
               THEN sent - inflight[k].time_spent_seconds
               ELSE sent
    /\ UNCHANGED <<mounted, props, effect, intervalIdRef, timers, clock,
                   track, offTrack>>

\* a tick passes
Tick ==
    /\ clock < MaxClock
    /\ ~SomeDue
    /\ clock' = clock + 1
    /\ UNCHANGED <<mounted, props, effect, intervalIdRef, startTimeRef,
                   timers, track, inflight, sent, settled, offTrack>>

TrackNext ==
    \/ \E p \in HookProps : HookRender(p)
    \/ HookUnmount
    \/ \E id \in 1..MaxEffects : TimerFire(id)
    \/ \E k \in 1..MaxInFlight, how \in Outcomes : PostSettle(k, how)
    \/ Tick

SpecTrack == TrackInit /\ [][TrackNext]_vars

\* C15: the effect of an enabled hook with a chapterId has an interval that
\* calls trackTime every 30 seconds; its cleanup clears the interval and
\* calls trackTime once more, for the chapterId of the effect, and the
\* interval calls trackTime no more after that.
C15_IntervalAndCleanup ==
    /\ (mounted /\ props.enabled /\ props.chapterId # "") =>
          /\ effect # <<>>
          /\ timers[effect[1]].chapterId = props.chapterId
    /\ \A id \in DOMAIN timers :
          IF effect = <<id>>
          THEN /\ timers[id].live
               /\ track[id].interval =
                     (clock - track[id].started) \div TicksPerInterval
                     - (IF timers[id].due <= clock THEN 1 ELSE 0)
               /\ track[id].final = 0
               /\ track[id].late = 0
          ELSE /\ ~timers[id].live
               /\ track[id].final = 1
               /\ track[id].late = 0

\* an effect was cleaned up after its interval had fired, a full interval
\* has passed since, and the interval of the next effect has fired too
C15_Witness ==
    /\ Len(timers) >= 2
    /\ effect = <<2>>
    /\ timers[1].chapterId # timers[2].chapterId
    /\ track[1].interval >= 1
    /\ track[1].final = 1
    /\ track[2].interval >= 1
    /\ clock >= timers[1].due

\* a step in which the fetch of a POST settles
Settles == Len(inflight') < Len(inflight)

\* C21: when the POST of trackTime fails, by a network error or by a
\* response from /api/progress/track that is not 2xx, the start time of the
\* hook is left as it was, so the seconds not recorded stay in the elapsed
\* time of the next call.
C21_FailureKeepsStart ==
    [][(Settles /\ settled'[1].outcome # "ok") =>
          startTimeRef' = startTimeRef]_vars

\* C23: the time_spent_seconds of the POSTs that reached the server sum to
\* no more than the seconds that have passed since tracking started, also
\* when the POST of one call is still in flight at the next call.
C23_NoSecondTwice ==
    track # <<>> =>
        sent <= ((clock - track[1].started) * TickMs) \div 1000

\* C24: after the chapter changed, the settling of a POST made for the
\* chapter before leaves the start time of the new chapter as it was.
C24_OldPostKeepsStart ==
    [][(/\ Settles
        /\ effect # <<>>
        /\ timers[settled'[1].id].chapterId # timers[effect[1]].chapterId)
          => startTimeRef' = startTimeRef]_vars

(***************************************************************************)
(* GET /api/progress: one request, from the session check to the response. *)
(***************************************************************************)
Users == {"u1", "u2"}

\* the rows of chapter_progress
ProgressRows ==
    {[user_id |-> "u1", chapter_id |-> "c1", status |-> "completed"],
     [user_id |-> "u1", chapter_id |-> "c2", status |-> "in_progress"],
     [user_id |-> "u2", chapter_id |-> "c1", status |-> "in_progress"]}

\* a search parameter: absent, empty, or a value
Param(values) == {<<>>, <<"">>} \cup {<<v>> : v \in values}

ProgressRequests ==
    [session : {<<>>} \cup {<<u>> : u \in Users},
     user_id : Param(Users),
     chapter_id : Param({"c1", "c3"})]

\* x || y for strings: x when it is present and not empty
OrElse(x, y) == IF x # <<>> /\ x[1] # "" THEN x[1] ELSE y

\* searchParams.get('user_id') || session.user.id
TargetUserId == OrElse(greq.user_id, greq.session[1])

\* the caller is approved for itself only
AuthorizedAsSelf(caller, target) == <<caller, caller>> \in grants

\* await isAuthorizedToAccess(pool, session.user.id, targetUserId)
Authorized(caller, target) == <<caller, target>> \in grants

ProgressInit ==
    /\ greq \in ProgressRequests
    /\ grants \in SUBSET (Users \X Users)
    /\ gpc = "session"
    /\ gresp = [status |-> 0]
    /\ gclient = "none"
    /\ gqueries = 0
    /\ gfail = "none"
    /\ ParseIdle
    /\ ImportIdle
    /\ DbEmpty
    /\ ScoreIdle
    /\ SubmitIdle
    /\ ChapterIdle
    /\ TrackIdle
    /\ FixIdle
    /\ MoreIdle

offProgress ==
    <<parseVars, importVars, dbVars, scoreVars, submitVars, chapterVars,
      trackVars, fixVars, moreVars>>

\* the response is sent
Respond(r) ==
    /\ gpc' = "done"
    /\ gresp' = r

\* catch (error): 500, after the finally of the inner try when the client
\* was held
InternalError(step) ==
    /\ Respond([status |-> 500])
    /\ gfail' = step

\* auth.api.getSession, and the 401 for no session
GetSession ==
    /\ gpc = "session"
    /\ \E ok \in BOOLEAN :
          IF ~ok THEN InternalError("session")
          ELSE IF greq.session = <<>>
               THEN Respond([status |-> 401]) /\ UNCHANGED gfail
               ELSE gpc' = "authorize" /\ UNCHANGED <<gresp, gfail>>
    /\ UNCHANGED <<greq, grants, gclient, gqueries, offProgress>>

\* getPool(), isAuthorizedToAccess, and the 403
Authorize ==
    /\ gpc = "authorize"
    /\ \E ok \in BOOLEAN :
          IF ~ok THEN InternalError("authorize")
          ELSE IF ~Authorized(greq.session[1], TargetUserId)
               THEN Respond([status |-> 403]) /\ UNCHANGED gfail
               ELSE gpc' = "connect" /\ UNCHANGED <<gresp, gfail>>
    /\ UNCHANGED <<greq, grants, gclient, gqueries, offProgress>>

\* const client = await pool.connect()
Connect ==
    /\ gpc = "connect"
    /\ \E ok \in BOOLEAN :
          IF ok
          THEN /\ gclient' = "held"
               /\ gpc' = IF OrElse(greq.chapter_id, "") # "" THEN "chapter"
                          ELSE "stats"
               /\ UNCHANGED <<gresp, gfail>>
          ELSE InternalError("connect") /\ UNCHANGED gclient
    /\ UNCHANGED <<greq, grants, gqueries, offProgress>>

\* the query of one chapter, the response, and finally client.release()
ChapterQuery ==
    /\ gpc = "chapter"
    /\ gqueries' = gqueries + 1
    /\ gclient' = "released"
    /\ \E ok \in BOOLEAN :
          IF ~ok THEN InternalError("query")
          ELSE LET rows == {r \in ProgressRows :
                               /\ r.user_id = TargetUserId
                               /\ r.chapter_id = greq.chapter_id[1]}
               IN  /\ Respond([status |-> 200, rows |-> rows,
                               chapter_id |-> greq.chapter_id[1]])
                   /\ UNCHANGED gfail
    /\ UNCHANGED <<greq, grants, offProgress>>

\* the statistics query; when it throws, finally client.release()
StatsQuery ==
    /\ gpc = "stats"
    /\ gqueries' = gqueries + 1
    /\ \E ok \in BOOLEAN :
          IF ok THEN gpc' = "recent" /\ UNCHANGED <<gresp, gfail, gclient>>
          ELSE InternalError("query") /\ gclient' = "released"
    /\ UNCHANGED <<greq, grants, offProgress>>

\* the query of the recent chapters, the response, and finally
\* client.release()
RecentQuery ==
    /\ gpc = "recent"
    /\ gqueries' = gqueries + 1
    /\ gclient' = "released"
    /\ \E ok \in BOOLEAN :
          IF ~ok THEN InternalError("query")
          ELSE /\ Respond([status |-> 200, user_id |-> TargetUserId,
                           rows |-> {r \in ProgressRows :
                                        r.user_id = TargetUserId}])
               /\ UNCHANGED gfail
    /\ UNCHANGED <<greq, grants, offProgress>>

ProgressNext ==
    \/ GetSession
    \/ Authorize
    \/ Connect
    \/ ChapterQuery
    \/ StatsQuery
    \/ RecentQuery

SpecProgress == ProgressInit /\ [][ProgressNext]_vars

\* the target user of the request, once there is a session
ApprovedTarget ==
    /\ greq.session # <<>>
    /\ <<greq.session[1], TargetUserId>> \in grants

HeadingPlaces(lines) ==
    SelectSeq([i \in 1..Len(lines) |-> i], LAMBDA i : lines[i].k = "qhead")

\* the option lines with a key A-D from place i up to, not including, place
\* end, as options
RECURSIVE OptionLines(_, _, _)
OptionLines(lines, i, end) ==
    IF i >= end THEN <<>>
    ELSE IF lines[i].k \in {"opt", "boldopt"}
            /\ lines[i].key \in {"A", "B", "C", "D"}
         THEN <<[key |-> lines[i].key, text |-> lines[i].t]>>
              \o OptionLines(lines, i + 1, end)
         ELSE OptionLines(lines, i + 1, end)

\* the options met while the n-th question heading was the current one
ExpectedOptions(lines, n) ==
    LET places == HeadingPlaces(lines)
        end == IF n < Len(places) THEN places[n + 1] ELSE Len(lines) + 1
    IN  OptionLines(lines, places[n], end)

\* C17: the options of a parsed question are the option lines with a key
\* A-D met between its heading and the next one, in order, with key and
\* text; a line with another key and an option line before the first
\* heading add no option.
C17_Options ==
    (ppc = "done" /\ outcome.quiz # <<>>) =>
        \A k \in 1..Len(Returned) :
            \E n \in 1..Len(HeadingPlaces(doc.lines)) :
                /\ Returned[k].id = "q" \o ToString(n)
                /\ Returned[k].options = ExpectedOptions(doc.lines, n)

\* a document with an option line before its first heading and, after the
\* heading, a line with the key E and an option that was taken
C17_Witness ==
    /\ ppc = "done"
    /\ outcome.quiz # <<>>
    /\ Len(doc.lines) >= 4
    /\ doc.lines[1] = OptA
    /\ doc.lines[2].k = "qhead"
    /\ OptE \in {doc.lines[i] : i \in 3..Len(doc.lines)}
    /\ Len(Returned) = 1
    /\ Returned[1].options = <<[key |-> "B", text |-> "y"]>>

\* the last line of the given kind between the n-th question heading and
\* the next, <<>> when there is none
LastInQuestion(lines, n, kind) ==
    LET places == HeadingPlaces(lines)
        end == IF n < Len(places) THEN places[n + 1] ELSE Len(lines) + 1
        found == {i \in places[n]..(end - 1) : lines[i].k = kind}
    IN  IF found = {} THEN <<>>
        ELSE <<lines[CHOOSE i \in found : \A j \in found : j <= i]>>

\* the inline answer key and the inline explanation of the n-th heading,
\* "" when it has none
InlineAnswer(lines, n) ==
    LET l == LastInQuestion(lines, n, "ans") IN IF l = <<>> THEN "" ELSE l[1].key

InlineExplanation(lines, n) ==
    LET l == LastInQuestion(lines, n, "expl") IN IF l = <<>> THEN "" ELSE l[1].t

\* the numbers that have an entry in the legacy answer key of a document
LegacyNumbers(lines) ==
    {lines[i].n : i \in {j \in 1..Len(lines) : lines[j].k = "legacy"}}

\* the last legacy line with the number n
LegacyEntry(lines, n) ==
    LET found == {i \in 1..Len(lines) :
                     lines[i].k = "legacy" /\ lines[i].n = n}
    IN  lines[CHOOSE i \in found : \A j \in found : j <= i]

\* C18: a question that lacks an inline answer or an inline explanation
\* gets answer and explanation from the legacy entry numbered as its place
\* in the returned list, when there is such an entry, and keeps what it has
\* otherwise; the place counts, not the number in the heading or the id.
C18_LegacyByPosition ==
    (ppc = "done" /\ outcome.quiz # <<>>) =>
        \A k \in 1..Len(Returned) :
            LET n == CHOOSE m \in 1..Len(HeadingPlaces(doc.lines)) :
                         Returned[k].id = "q" \o ToString(m)
                inlineAnswer == InlineAnswer(doc.lines, n)
                inlineExplanation == InlineExplanation(doc.lines, n)
            IN  (inlineAnswer = "" \/ inlineExplanation = "") =>
                    IF k \in LegacyNumbers(doc.lines)
                    THEN /\ Returned[k].correct_answer =
                                LegacyEntry(doc.lines, k).key
                         /\ Returned[k].explanation =
                                LegacyEntry(doc.lines, k).t
                    ELSE /\ Returned[k].correct_answer = inlineAnswer
                         /\ Returned[k].explanation = inlineExplanation

\* the first heading gave no question, so the question of the second
\* heading, q2, is first in the list and got the legacy entry 1
C18_Witness ==
    /\ ppc = "done"
    /\ outcome.quiz # <<>>
    /\ Len(Returned) = 1
    /\ Returned[1].id = "q2"
    /\ Returned[1].correct_answer = "A"
    /\ Returned[1].explanation = "old"

\* C19: a submission is started only when every question has a selected
\* answer: the answers of every request are one entry for each question id
\* of the quiz and no other entry.
C19_AllAnswered ==
    \A t \in Tabs :
        req[t] # <<>> =>
            DOMAIN req[t][1].given =
                {PropsQuestions[i].id : i \in 1..Len(PropsQuestions)}

\* a submission was sent from the first question, after the learner had
\* gone to the last question and back, on a retake
C19_Witness ==
    \E t \in Tabs :
        /\ req[t] # <<>>
        /\ req[t][1].phase = "sent"
        /\ idx[t] = 0
        /\ Cardinality(DOMAIN req[t][1].given) = Len(PropsQuestions)
        /\ maxAssigned[tabUser[t]] >= 1
        /\ \A o \in Tabs \ {t} : tabUser[o] # tabUser[t]

(***************************************************************************)
(* scripts/fix-quiz-chapter-ids.js: one run of fixQuizChapterIds.          *)
(***************************************************************************)
\* the updates, old chapter_id to new
FixUpdates ==
    <<[old |-> "chapter-02-markdown-quiz",
       new |-> "part-2-markdown-prompt-context/chapter-02-markdown/06-quiz-markdown"],
      [old |-> "chapter-03-prompt-engineering-quiz",
       new |-> "part-2-markdown-prompt-context/chapter-03-prompt-engineering/09-quiz-prompt-engineering"],
      [old |-> "chapter-04-context-engineering-quiz",
       new |-> "part-2-markdown-prompt-context/chapter-04-context-engineering/10-quiz-context-engineering"],
      [old |-> "chapter-05-python-uv-quiz",
       new |-> "part-3-python-fundamentals/chapter-05-python-uv/04-quiz-python-uv"],
      [old |-> "chapter-06-intro-modern-python-quiz",
       new |-> "part-3-python-fundamentals/chapter-06-intro-modern-python/04-quiz-intro-modern-python"],
      [old |-> "chapter-07-data-types-quiz",
       new |-> "part-3-python-fundamentals/chapter-07-data-types/06-quiz-data-types"],
      [old |-> "chapter-08-operators-keywords-variables-quiz",
       new |-> "part-3-python-fundamentals/chapter-08-operators-keywords-variables/06-quiz-operators-keywords-variables"],
      [old |-> "chapter-09-strings-type-casting-quiz",
       new |-> "part-3-python-fundamentals/chapter-09-strings-type-casting/05-quiz-strings-type-casting"],
      [old |-> "chapter-10-control-flow-loops-quiz",
       new |-> "part-3-python-fundamentals/chapter-10-control-flow-loops/06-quiz-control-flow-loops"],
      [old |-> "chapter-11-lists-tuples-dictionary-quiz",
       new |-> "part-3-python-fundamentals/chapter-11-lists-tuples-dictionary/04-quiz-lists-tuples-dictionary"]>>

\* the chapter_id values the table can hold when the script starts
FixStartIds ==
    {FixUpdates[i].old : i \in 1..MaxRenamed} \cup {"appendix-quiz"}

FixInit ==
    /\ fpc = "pool"
    /\ fi = 1
    /\ ftable \in SUBSET FixStartIds
    /\ fclient = "none"
    /\ fexit = -1
    /\ ffail = "none"
    /\ ParseIdle
    /\ ImportIdle
    /\ DbEmpty
    /\ ScoreIdle
    /\ SubmitIdle
    /\ ChapterIdle
    /\ TrackIdle
    /\ ProgressIdle
    /\ MoreIdle

offFix ==
    <<parseVars, importVars, dbVars, scoreVars, submitVars, chapterVars,
      trackVars, progressVars, moreVars>>

\* the process ends with a status
FixExit(code, why) ==
    /\ fpc' = "exited"
    /\ fexit' = code
    /\ ffail' = why

\* fixQuizChapterIds() rejects and nothing handles the rejection: the
\* status is that of the runtime in use
FixRejected(why) == \E code \in {0, 1} : FixExit(code, why)

\* new Pool(...), before the try
FixPool ==
    /\ fpc = "pool"
    /\ \E ok \in BOOLEAN :
          IF ok THEN fpc' = "connect" /\ UNCHANGED <<fexit, ffail>>
          ELSE FixRejected("pool")
    /\ UNCHANGED <<fi, ftable, fclient, offFix>>

\* const client = await pool.connect(), before the try
FixConnect ==
    /\ fpc = "connect"
    /\ \E ok \in BOOLEAN :
          IF ok
          THEN fpc' = "update" /\ fclient' = "held" /\ UNCHANGED <<fexit, ffail>>
          ELSE FixRejected("connect") /\ UNCHANGED fclient
    /\ UNCHANGED <<fi, ftable, offFix>>

\* one pass of the loop: UPDATE quizzes SET chapter_id = new WHERE
\* chapter_id = old; when it throws, catch { process.exit(1) } ends the
\* process before the finally block is run
FixUpdate ==
    /\ fpc = "update"
    /\ fi <= Len(FixUpdates)
    /\ \E ok \in BOOLEAN :
          IF ok
          THEN /\ ftable' = IF FixUpdates[fi].old \in ftable
                            THEN (ftable \ {FixUpdates[fi].old})
                                 \cup {FixUpdates[fi].new}
                            ELSE ftable
               /\ fi' = fi + 1
               /\ UNCHANGED <<fpc, fexit, ffail>>
          ELSE /\ FixExit(1, "update")
               /\ UNCHANGED <<fi, ftable>>
    /\ UNCHANGED <<fclient, offFix>>

\* the verification query; then finally { client.release(); await
\* pool.end() } and the end of the script, or catch { process.exit(1) }
FixVerify ==
    /\ fpc = "update"
    /\ fi > Len(FixUpdates)
    /\ \E ok \in BOOLEAN :
          IF ok
          THEN /\ fclient' = "released"
               /\ \E ended \in BOOLEAN :
                     IF ended THEN FixExit(0, "none")
                     ELSE FixRejected("end")
          ELSE /\ FixExit(1, "verify")
               /\ UNCHANGED fclient
    /\ UNCHANGED <<fi, ftable, offFix>>

FixNext ==
    \/ FixPool
    \/ FixConnect
    \/ FixUpdate
    \/ FixVerify

SpecFix == FixInit /\ [][FixNext]_vars

\* C20: a client obtained with pool.connect() is released on every exit
\* path of the operation that obtained it, also when a query fails: here,
\* when fixQuizChapterIds has ended, its client is not held any more.
C20_ClientReleased ==
    fpc = "exited" => fclient # "held"

(***************************************************************************)
(* The book page: the chapter selected, and loadContent, which is begun    *)
(* for every selection and goes on after its fetch has settled.            *)
(***************************************************************************)
PageChapters == {"preface/welcome", "ch1/lesson", "ch1/quiz"}

\* activeId.includes('quiz')
IsQuizChapter(id) == id \in {"ch1/quiz"}

\* the sequence without its k-th element
RemoveAt(seq, k) ==
    [j \in 1..(Len(seq) - 1) |-> IF j < k THEN seq[j] ELSE seq[j + 1]]

\* loadContent up to its await: the flags are set and the fetch is begun,
\* /api/quiz for a quiz chapter of a signed-in reader, /api/book-content
\* otherwise
BeginLoad(id) ==
    /\ loading' = TRUE
    /\ quizData' = <<>>
    /\ loads' = Append(loads, [id |-> id, quiz |-> IsQuizChapter(id) /\ signedIn])

PageInit ==
    /\ activeId = "preface/welcome"
    /\ signedIn \in BOOLEAN
    /\ currentContent = [title |-> "Loading...", of |-> ""]
    /\ quizData = <<>>
    /\ loading = TRUE
    /\ loads = <<[id |-> activeId, quiz |-> FALSE]>>
    /\ ParseIdle
    /\ ImportIdle
    /\ DbEmpty
    /\ ScoreIdle
    /\ SubmitIdle
    /\ ChapterIdle
    /\ TrackIdle
    /\ ProgressIdle
    /\ FixIdle
    /\ DashIdle
    /\ MaintIdle
    /\ RoleIdle

baseVars ==
    <<parseVars, importVars, dbVars, scoreVars, submitVars, chapterVars,
      trackVars, progressVars, fixVars>>

offPage == <<baseVars, dashVars, maintVars, roleVars>>

\* setActiveId(id) from the sidebar or the navigation buttons, and the
\* effect that follows the render
SelectChapter(id) ==
    /\ id # activeId
    /\ Len(loads) < MaxLoads
    /\ activeId' = id
    /\ BeginLoad(id)
    /\ UNCHANGED <<signedIn, currentContent, offPage>>

\* the fetch of the k-th loadContent settles, and loadContent runs to its
\* end
LoadSettles(k, how) ==
    /\ k \in DOMAIN loads
    /\ loads' = RemoveAt(loads, k)
    /\ IF loads[k].quiz
       THEN IF how = "ok"
            THEN /\ quizData' = <<loads[k].id>>
                 /\ currentContent' = [title |-> "Quiz", of |-> loads[k].id]
            ELSE UNCHANGED <<quizData, currentContent>>
       ELSE /\ currentContent' =
                  IF how = "ok"
                  THEN [title |-> "Chapter", of |-> loads[k].id]
                  ELSE [title |-> "Error", of |-> ""]
            /\ UNCHANGED quizData
    /\ loading' = FALSE
    /\ UNCHANGED <<activeId, signedIn, offPage>>

PageNext ==
    \/ \E id \in PageChapters : SelectChapter(id)
    \/ \E k \in 1..MaxLoads, how \in Outcomes : LoadSettles(k, how)

SpecPage == PageInit /\ [][PageNext]_vars

\* what the page shows under the chapter selected when it is not loading:
\* the quiz of a chapter, the notice of an error, or the content of a chapter
Displayed ==
    IF IsQuizChapter(activeId) /\ quizData # <<>> /\ signedIn
    THEN quizData[1]
    ELSE IF currentContent.title = "Error"
         THEN "error notice"
         ELSE currentContent.of

\* C25: whenever loading is false, the page shows what was fetched for the
\* chapter selected, or the notice of an error: no response to an earlier
\* selection is shown, and a quiz fetch that failed does not leave the
\* content of the chapter before under the quiz chapter.
C25_ShowsActive ==
    ~loading => Displayed \in {activeId, "error notice"}

(***************************************************************************)
(* The student dashboard: fetchDashboardData, from the mount and from the  *)
(* Retry button of the error view.                                         *)
(***************************************************************************)
\* how a fetch of /api/dashboard/student settles: a 2xx response with the
\* data of its body (<<>> for null), a 401, another status, or a rejection
DashOutcomes ==
    {[kind |-> "ok", data |-> d] : d \in {<<"d1">>, <<"d2">>, <<>>}}
    \cup {[kind |-> k, data |-> <<>>] :
            k \in {"unauthorized", "http_error", "network_error"}}

\* setLoading(true) and the fetch
BeginFetch ==
    /\ dloading' = TRUE
    /\ dpending' = TRUE

DashInit ==
    /\ ddata = <<>>
    /\ dloading = TRUE
    /\ derror = <<>>
    /\ dpending = TRUE
    /\ dpath = "/dashboard/student"
    /\ dhistory = <<>>
    /\ ParseIdle
    /\ ImportIdle
    /\ DbEmpty
    /\ ScoreIdle
    /\ SubmitIdle
    /\ ChapterIdle
    /\ TrackIdle
    /\ ProgressIdle
    /\ FixIdle
    /\ PageIdle
    /\ MaintIdle
    /\ RoleIdle

offDash == <<baseVars, pageVars, maintVars, roleVars>>

\* the page shows the view of the error, with the Retry button
ErrorView ==
    /\ dpath = "/dashboard/student"
    /\ ~dloading
    /\ (derror # <<>> \/ ddata = <<>>)

\* the page shows the dashboard
DataView ==
    /\ dpath = "/dashboard/student"
    /\ ~dloading
    /\ ~ErrorView

\* fetchDashboardData from its await on
FetchSettles(how) ==
    /\ dpending
    /\ dpending' = FALSE
    /\ dhistory' = Append(dhistory, how)
    /\ dloading' = FALSE
    /\ CASE how.kind = "unauthorized" ->
                /\ dpath' = "/"
                /\ UNCHANGED <<ddata, derror>>
         [] how.kind = "ok" ->
                /\ ddata' = how.data
                /\ UNCHANGED <<derror, dpath>>
         [] how.kind = "http_error" ->
                /\ derror' = <<"Failed to load dashboard data">>
                /\ UNCHANGED <<ddata, dpath>>
         [] OTHER ->
                /\ derror' = <<"fetch failed">>
                /\ UNCHANGED <<ddata, dpath>>
    /\ UNCHANGED offDash

\* the Retry button of the error view
Retry ==
    /\ ErrorView
    /\ Len(dhistory) < MaxFetches
    /\ BeginFetch
    /\ UNCHANGED <<ddata, derror, dpath, dhistory, offDash>>

DashNext ==
    \/ \E how \in DashOutcomes : FetchSettles(how)
    \/ Retry

SpecDash == DashInit /\ [][DashNext]_vars

\* the fetch that settled last gave the data of a dashboard
LastFetchGaveData ==
    /\ dhistory # <<>>
    /\ dhistory[Len(dhistory)].kind = "ok"
    /\ dhistory[Len(dhistory)].data # <<>>

\* C26: after a load that failed and a Retry that succeeded the dashboard is
\* shown: the view of the error is shown only while the fetch that settled
\* last failed or gave no data.
C26_RetryShowsData ==
    (dpath = "/dashboard/student" /\ ~dloading /\ LastFetchGaveData)
        => DataView

(***************************************************************************)
(* The upkeep of the quizzes table: whole runs of the batch import and of  *)
(* fix-quiz-chapter-ids, in any order, on the same table.                  *)
(***************************************************************************)
\* the quiz documents under docs/: three the fix script has an entry for,
\* and one it has none for
QuizDocuments ==
    {<<"docs", "part-2-markdown-prompt-context", "chapter-02-markdown",
       "06-quiz-markdown.md">>,
     <<"docs", "part-2-markdown-prompt-context",
       "chapter-03-prompt-engineering", "09-quiz-prompt-engineering.md">>,
     <<"docs", "part-2-markdown-prompt-context",
       "chapter-04-context-engineering", "10-quiz-context-engineering.md">>,
     <<"docs", "appendix", "quiz-final.md">>}

\* insertQuiz for the quiz of document d: the row under the chapter_id of
\* the quiz is replaced, or a row is added
UpsertDocument(rows, d) ==
    {r \in rows : r.chapter_id # extractChapterId(d)}
    \cup {[chapter_id |-> extractChapterId(d), doc |-> d]}

\* the inserts of main() for the documents of ds, one after the other
RECURSIVE UpsertAll(_, _)
UpsertAll(rows, ds) ==
    IF ds = {} THEN rows
    ELSE LET d == CHOOSE x \in ds : TRUE
         IN  UpsertAll(UpsertDocument(rows, d), ds \ {d})

\* the loop of the fix script from its i-th entry on: each UPDATE renames
\* the row under old, and fails on the unique chapter_id when a row under
\* new is there too; the script stops at the failure
RECURSIVE ApplyFixes(_, _)
ApplyFixes(rows, i) ==
    IF i > Len(FixUpdates) THEN [rows |-> rows, ok |-> TRUE]
    ELSE LET u == FixUpdates[i]
             hit == {r \in rows : r.chapter_id = u.old}
         IN  IF hit = {} THEN ApplyFixes(rows, i + 1)
             ELSE IF \E r \in rows : r.chapter_id = u.new
             THEN [rows |-> rows, ok |-> FALSE]
             ELSE ApplyFixes(
                     (rows \ hit) \cup
                        {[r EXCEPT !.chapter_id = u.new] : r \in hit},
                     i + 1)

MaintInit ==
    /\ qrows = {}
    /\ mfix = "none"
    /\ ParseIdle
    /\ ImportIdle
    /\ DbEmpty
    /\ ScoreIdle
    /\ SubmitIdle
    /\ ChapterIdle
    /\ TrackIdle
    /\ ProgressIdle
    /\ FixIdle
    /\ PageIdle
    /\ DashIdle
    /\ RoleIdle

offMaint == <<baseVars, pageVars, dashVars, roleVars>>

\* a run of the batch import in which the documents of ds gave a quiz
ImportRun(ds) ==
    /\ ds # {}
    /\ qrows' = UpsertAll(qrows, ds)
    /\ UNCHANGED <<mfix, offMaint>>

\* a run of fix-quiz-chapter-ids
FixRun ==
    /\ LET run == ApplyFixes(qrows, 1)
       IN  /\ qrows' = run.rows
           /\ mfix' = IF run.ok THEN "ok" ELSE "failed"
    /\ UNCHANGED offMaint

MaintNext ==
    \/ \E ds \in SUBSET QuizDocuments : ImportRun(ds)
    \/ FixRun

SpecMaint == MaintInit /\ [][MaintNext]_vars

\* C27: whatever runs of the batch import and of the fix script there were,
\* the quizzes table holds at most one row for a quiz document, and the fix
\* script has not ended with an error.
C27_OneRowPerDocument ==
    /\ \A d \in QuizDocuments : Cardinality({r \in qrows : r.doc = d}) <= 1
    /\ mfix # "failed"

(***************************************************************************)
(* assign-roles: one run of assignRoles after the other, query by query.   *)
(***************************************************************************)
Accounts == {"a1", "a2", "a3"}

\* what generateStudentId can give, of its 32^6 codes
StudentIds == {"STU-AAAAAA", "STU-AAAAAB"}

RoleInit ==
    /\ rpc = "connect"
    /\ rtodo = {}
    /\ rcur = <<>>
    /\ \E given \in SUBSET Accounts :
          roles = {[user_id |-> u, role |-> "teacher", script |-> FALSE] :
                      u \in given}
    /\ profiles = {}
    /\ rexit = -1
    /\ rruns = 1
    /\ ParseIdle
    /\ ImportIdle
    /\ DbEmpty
    /\ ScoreIdle
    /\ SubmitIdle
    /\ ChapterIdle
    /\ TrackIdle
    /\ ProgressIdle
    /\ FixIdle
    /\ PageIdle
    /\ DashIdle
    /\ MaintIdle

offRole == <<baseVars, pageVars, dashVars, maintVars>>

\* the script ends: the end of assignRoles, or the catch of its rejection,
\* process.exit(1)
RoleExit(code) ==
    /\ rpc' = "exited"
    /\ rexit' = code

\* const client = await pool.connect()
RoleConnect ==
    /\ rpc = "connect"
    /\ \E ok \in BOOLEAN :
          IF ok THEN rpc' = "select" /\ UNCHANGED rexit ELSE RoleExit(1)
    /\ UNCHANGED <<rtodo, rcur, roles, profiles, rruns, offRole>>

\* the users without a row of user_roles; the script ends when there are
\* none
RoleSelect ==
    /\ rpc = "select"
    /\ \E ok \in BOOLEAN :
          IF ok
          THEN LET rows == Accounts \ {r.user_id : r \in roles}
               IN  /\ rtodo' = rows
                   /\ IF rows = {} THEN RoleExit(0)
                      ELSE rpc' = "role" /\ UNCHANGED rexit
          ELSE RoleExit(1) /\ UNCHANGED rtodo
    /\ UNCHANGED <<rcur, roles, profiles, rruns, offRole>>

\* a pass of the loop, first query: INSERT INTO user_roles
RoleInsert(u) ==
    /\ rpc = "role"
    /\ u \in rtodo
    /\ \E ok \in BOOLEAN :
          IF ok
          THEN /\ roles' = roles \cup
                    {[user_id |-> u, role |-> "student", script |-> TRUE]}
               /\ rcur' = <<u>>
               /\ rpc' = "profile"
               /\ UNCHANGED rexit
          ELSE RoleExit(1) /\ UNCHANGED <<roles, rcur>>
    /\ UNCHANGED <<rtodo, profiles, rruns, offRole>>

\* the pass goes on: generateStudentId() and INSERT INTO student_profiles;
\* after the last pass the script ends
ProfileInsert(sid) ==
    /\ rpc = "profile"
    /\ \E ok \in BOOLEAN :
          IF ok
          THEN /\ profiles' = profiles \cup
                    {[user_id |-> rcur[1], student_id |-> sid]}
               /\ rtodo' = rtodo \ {rcur[1]}
               /\ rcur' = <<>>
               /\ IF rtodo' = {} THEN RoleExit(0)
                  ELSE rpc' = "role" /\ UNCHANGED rexit
          ELSE RoleExit(1) /\ UNCHANGED <<profiles, rtodo, rcur>>
    /\ UNCHANGED <<roles, rruns, offRole>>

\* the script is started again
RoleAgain ==
    /\ rpc = "exited"
    /\ rruns < MaxRuns
    /\ rpc' = "connect"
    /\ rtodo' = {}
    /\ rcur' = <<>>
    /\ rexit' = -1
    /\ rruns' = rruns + 1
    /\ UNCHANGED <<roles, profiles, offRole>>

RoleNext ==
    \/ RoleConnect
    \/ RoleSelect
    \/ \E u \in Accounts : RoleInsert(u)
    \/ \E sid \in StudentIds : ProfileInsert(sid)
    \/ RoleAgain

SpecRole == RoleInit /\ [][RoleNext]_vars

\* C28: whenever assign-roles has ended, by its end or by a query that
\* failed, every user with a row of user_roles the script made has a row of
\* student_profiles.
C28_RoleHasProfile ==
    rpc = "exited" =>
        \A r \in roles :
            r.script => \E p \in profiles : p.user_id = r.user_id

=============================================================================
